---- MODULE Spec2Model ----
(***************************************************************************)
(* A model of smart-suggestion's terminal-capture and privacy pipeline:    *)
(* the privacy filter of pkg/privacy/filter.go (regular expressions are    *)
(* interpreted with Go's leftmost-first semantics over sequences of        *)
(* one-character strings), the proxy session lock and the log rotator.     *)
(***************************************************************************)
EXTENDS Integers, Sequences, FiniteSets, TLC

(***************************************************************************)
(* Characters and character classes (ASCII).                               *)
(***************************************************************************)
Lower == {"a", "b", "c", "d", "e", "f", "g", "h", "i", "j", "k", "l", "m",
          "n", "o", "p", "q", "r", "s", "t", "u", "v", "w", "x", "y", "z"}
Upper == {"A", "B", "C", "D", "E", "F", "G", "H", "I", "J", "K", "L", "M",
          "N", "O", "P", "Q", "R", "S", "T", "U", "V", "W", "X", "Y", "Z"}
Digit == {"0", "1", "2", "3", "4", "5", "6", "7", "8", "9"}
\* \s of RE2: [\t\n\f\r ]
Space == {" ", "\t", "\n", "\f", "\r"}
\* \w of RE2, the class \b is defined by
WordChar == Lower \cup Upper \cup Digit \cup {"_"}

\* the alphabet of a text: the white space and the printable ASCII characters
\* (the backquote left out)
Punct == {"!", "\"", "#", "$", "%", "&", "'", "(", ")", "*", "+", ",", "-", ".", "/",
          ":", ";", "<", "=", ">", "?", "@", "[", "\\", "]", "^", "{", "|", "}", "~"}
Ascii == WordChar \cup Space \cup Punct

\* ASCII lower-casing, the simple case folding (?i) applies to a literal
ToLower(c) ==
  CASE c = "A" -> "a" [] c = "B" -> "b" [] c = "C" -> "c" [] c = "D" -> "d"
    [] c = "E" -> "e" [] c = "F" -> "f" [] c = "G" -> "g" [] c = "H" -> "h"
    [] c = "I" -> "i" [] c = "J" -> "j" [] c = "K" -> "k" [] c = "L" -> "l"
    [] c = "M" -> "m" [] c = "N" -> "n" [] c = "O" -> "o" [] c = "P" -> "p"
    [] c = "Q" -> "q" [] c = "R" -> "r" [] c = "S" -> "s" [] c = "T" -> "t"
    [] c = "U" -> "u" [] c = "V" -> "v" [] c = "W" -> "w" [] c = "X" -> "x"
    [] c = "Y" -> "y" [] c = "Z" -> "z" [] OTHER -> c

(***************************************************************************)
(* Regular expressions as terms.  (?i) is folded into the term: a class    *)
(* holds both cases, a literal is compared after lower-casing.  (?m)       *)
(* selects Bol/Eol for ^ and $, which are Bot/Eot without it.  A capture   *)
(* group matches as its body.                                              *)
(***************************************************************************)
Eps == [t |-> "eps"]
Set(cs) == [t |-> "set", cs |-> cs]
NSet(cs) == [t |-> "nset", cs |-> cs]
Lit(w) == [t |-> "lit", w |-> w, fold |-> FALSE]
LitI(w) == [t |-> "lit", w |-> w, fold |-> TRUE]
Cat(kids) == [t |-> "cat", kids |-> kids]
Alt(kids) == [t |-> "alt", kids |-> kids]
\* kid{min,max}, greedy; max = -1 is "no upper bound"
Rep(kid, min, max) == [t |-> "rep", kid |-> kid, min |-> min, max |-> max]
Bot == [t |-> "bot"]
Eot == [t |-> "eot"]
Bol == [t |-> "bol"]
Eol == [t |-> "eol"]
Wb == [t |-> "wb"]

IsWordAt(s, k) == k >= 1 /\ k <= Len(s) /\ s[k] \in WordChar

\* a with the elements of b it does not hold yet appended, in b's order
\* (b holds no element twice)
Merge(a, b) ==
  IF a = <<>> THEN b
  ELSE IF b = <<>> THEN a
  ELSE a \o SelectSeq(b, LAMBDA e : \A k \in DOMAIN a : a[k] # e)

\* whether the literal w stands in s after position i
LitAt(w, fold, s, i) ==
  /\ i + Len(w) <= Len(s)
  /\ \A k \in 1..Len(w) :
       IF fold THEN ToLower(s[i + k]) = w[k] ELSE s[i + k] = w[k]

InClass(re, c) == IF re.t = "set" THEN c \in re.cs ELSE c \notin re.cs

\* how many of the characters s[lo..hi], from s[lo] on, are in the class
\* without a gap (by halving, to keep the evaluation shallow)
RECURSIVE RunIn(_, _, _, _)
RunIn(re, s, lo, hi) ==
  IF lo > hi THEN 0
  ELSE IF lo = hi THEN (IF InClass(re, s[lo]) THEN 1 ELSE 0)
  ELSE LET mid == (lo + hi) \div 2
           left == RunIn(re, s, lo, mid)
       IN  IF left < mid - lo + 1 THEN left ELSE left + RunIn(re, s, mid + 1, hi)

\* the length of the longest run, of at most max characters (max = -1: any),
\* after position i whose characters are all in the class
RunLen(re, s, i, max) ==
  RunIn(re, s, i + 1, IF max < 0 \/ i + max > Len(s) THEN Len(s) ELSE i + max)

(***************************************************************************)
(* Ends(re, s, i): the positions at which a match of re that starts after  *)
(* the first i characters of s can end, in the order a backtracking        *)
(* (leftmost-first) matcher tries them: the first is the match Go reports. *)
(***************************************************************************)
RECURSIVE Ends(_, _, _)
RECURSIVE EndsFrom(_, _, _, _, _)
RECURSIVE CatEnds(_, _, _, _)
RECURSIVE AltEnds(_, _, _, _)
RECURSIVE RepEnds(_, _, _, _, _)
RECURSIVE RepFrom(_, _, _, _, _)

\* the ends of re started at starts[lo], .., starts[hi], in that order
EndsFrom(re, s, starts, lo, hi) ==
  IF lo > hi THEN <<>>
  ELSE IF lo = hi THEN Ends(re, s, starts[lo])
  ELSE LET mid == (lo + hi) \div 2
       IN  Merge(EndsFrom(re, s, starts, lo, mid), EndsFrom(re, s, starts, mid + 1, hi))

CatEnds(kids, k, s, ends) ==
  IF k > Len(kids) \/ ends = <<>> THEN ends
  ELSE CatEnds(kids, k + 1, s, EndsFrom(kids[k], s, ends, 1, Len(ends)))

AltEnds(kids, k, s, i) ==
  IF k > Len(kids) THEN <<>>
  ELSE Merge(Ends(kids[k], s, i), AltEnds(kids, k + 1, s, i))

\* greedy repetition: one more iteration is preferred to stopping
RepEnds(kid, min, max, s, i) ==
  IF kid.t \in {"set", "nset"}
  THEN LET n == RunLen(kid, s, i, max)
       IN  IF n < min THEN <<>> ELSE [k \in 1..(n - min + 1) |-> i + n - k + 1]
  ELSE LET one == SelectSeq(Ends(kid, s, i), LAMBDA e : e > i)
           dec(x) == IF x > 0 THEN x - 1 ELSE x
           more == IF max = 0 \/ one = <<>> THEN <<>>
                   ELSE RepFrom(kid, dec(min), dec(max), s, one)
       IN  Merge(more, IF min <= 0 THEN <<i>> ELSE <<>>)

RepFrom(kid, min, max, s, starts) ==
  IF starts = <<>> THEN <<>>
  ELSE Merge(RepEnds(kid, min, max, s, Head(starts)),
             RepFrom(kid, min, max, s, Tail(starts)))

Ends(re, s, i) ==
  CASE re.t = "cat" -> CatEnds(re.kids, 1, s, <<i>>)
    [] re.t = "lit" -> IF LitAt(re.w, re.fold, s, i) THEN <<i + Len(re.w)>> ELSE <<>>
    [] re.t = "rep" -> RepEnds(re.kid, re.min, re.max, s, i)
    [] re.t = "set" -> IF i < Len(s) /\ s[i + 1] \in re.cs THEN <<i + 1>> ELSE <<>>
    [] re.t = "nset" -> IF i < Len(s) /\ s[i + 1] \notin re.cs THEN <<i + 1>> ELSE <<>>
    [] re.t = "alt" -> AltEnds(re.kids, 1, s, i)
    [] re.t = "wb" -> IF IsWordAt(s, i) # IsWordAt(s, i + 1) THEN <<i>> ELSE <<>>
    [] re.t = "bol" -> IF i = 0 \/ s[i] = "\n" THEN <<i>> ELSE <<>>
    [] re.t = "eol" -> IF i = Len(s) \/ s[i + 1] = "\n" THEN <<i>> ELSE <<>>
    [] re.t = "bot" -> IF i = 0 THEN <<i>> ELSE <<>>
    [] re.t = "eot" -> IF i = Len(s) THEN <<i>> ELSE <<>>
    [] re.t = "eps" -> <<i>>

(***************************************************************************)
(* regexp.Regexp: MatchString and ReplaceAllString.                        *)
(***************************************************************************)
\* whether re can match the empty string, were its assertions to hold
RECURSIVE Nullable(_)
Nullable(re) ==
  CASE re.t \in {"set", "nset"} -> FALSE
    [] re.t = "lit" -> re.w = <<>>
    [] re.t = "cat" -> \A k \in DOMAIN re.kids : Nullable(re.kids[k])
    [] re.t = "alt" -> \E k \in DOMAIN re.kids : Nullable(re.kids[k])
    [] re.t = "rep" -> re.min = 0 \/ Nullable(re.kid)
    [] OTHER -> TRUE

\* the characters a non-empty match of re can begin with
RECURSIVE FirstChars(_)
FirstChars(re) ==
  CASE re.t = "set" -> re.cs
    [] re.t = "nset" -> Ascii \ re.cs
    [] re.t = "lit" -> IF re.w = <<>> THEN {}
                       ELSE IF re.fold THEN {c \in Ascii : ToLower(c) = re.w[1]}
                       ELSE {re.w[1]}
    [] re.t = "cat" -> UNION {FirstChars(re.kids[k]) :
                               k \in {j \in DOMAIN re.kids :
                                        \A h \in 1..(j - 1) : Nullable(re.kids[h])}}
    [] re.t = "alt" -> UNION {FirstChars(re.kids[k]) : k \in DOMAIN re.kids}
    [] re.t = "rep" -> IF re.max = 0 THEN {} ELSE FirstChars(re.kid)
    [] OTHER -> {}

\* a literal every match of re contains: the longest literal factor of a
\* concatenation (the empty literal when there is none)
Needed(re) ==
  IF re.t = "lit" THEN re
  ELSE IF re.t = "cat"
       THEN LET lits == {k \in DOMAIN re.kids : re.kids[k].t = "lit"}
            IN  IF lits = {} THEN Lit(<<>>)
                ELSE re.kids[CHOOSE k \in lits :
                               \A j \in lits : Len(re.kids[k].w) >= Len(re.kids[j].w)]
  ELSE Lit(<<>>)

\* the program regexp.Compile makes of a term: the term and what the matcher
\* looks at before it tries a position, as Go's matcher skips the texts and
\* the positions at which no match can start
Prog(re) ==
  [re |-> re, first |-> FirstChars(re), nullable |-> Nullable(re), need |-> Needed(re)]

Contains(s, lit) == \E i \in 0..(Len(s) - Len(lit.w)) : LitAt(lit.w, lit.fold, s, i)

CanStart(prog, s, i) == prog.nullable \/ (i < Len(s) /\ s[i + 1] \in prog.first)

\* the leftmost match that starts at one of the positions lo..hi:
\* <<start, end>>, or <<>> (by halving, the left half first)
RECURSIVE FindIn(_, _, _, _)
FindIn(prog, s, lo, hi) ==
  IF lo > hi \/ ~\E i \in lo..hi : CanStart(prog, s, i) THEN <<>>
  ELSE IF lo = hi
       THEN LET e == Ends(prog.re, s, lo) IN IF e # <<>> THEN <<lo, e[1]>> ELSE <<>>
  ELSE LET mid == (lo + hi) \div 2
           left == FindIn(prog, s, lo, mid)
       IN  IF left # <<>> THEN left ELSE FindIn(prog, s, mid + 1, hi)

\* the leftmost match that starts at or after pos
FindFrom(prog, s, pos) ==
  IF Contains(s, prog.need) THEN FindIn(prog, s, pos, Len(s)) ELSE <<>>

MatchString(prog, s) == FindFrom(prog, s, 0) # <<>>

\* the name that follows a $ of a replacement template: the characters of a
\* leading {name}, or the longest leading run of letters, digits and _
NameRun(tpl) == SubSeq(tpl, 1, RunLen(Set(WordChar), tpl, 0, -1))

extract(tpl) ==
  IF tpl = <<>> THEN [name |-> <<>>, rest |-> tpl, ok |-> FALSE]
  ELSE IF Head(tpl) = "{"
       THEN LET n == NameRun(Tail(tpl))
                after == SubSeq(tpl, Len(n) + 2, Len(tpl))
            IN  IF n # <<>> /\ after # <<>> /\ Head(after) = "}"
                THEN [name |-> n, rest |-> Tail(after), ok |-> TRUE]
                ELSE [name |-> <<>>, rest |-> tpl, ok |-> FALSE]
       ELSE LET n == NameRun(tpl)
            IN  [name |-> n, rest |-> SubSeq(tpl, Len(n) + 1, Len(tpl)), ok |-> n # <<>>]

\* Regexp.expand for a template whose references are $0 / ${0} (the whole
\* match), $$ and names that no group of the pattern bears (they expand to
\* nothing: the patterns have no named groups).  References to the numbered
\* groups 1.. are outside the templates this model draws.
RECURSIVE expand(_, _)
expand(tpl, match) ==
  IF tpl = <<>> THEN <<>>
  ELSE IF Head(tpl) # "$" THEN <<Head(tpl)>> \o expand(Tail(tpl), match)
  ELSE IF Len(tpl) >= 2 /\ tpl[2] = "$" THEN <<"$">> \o expand(SubSeq(tpl, 3, Len(tpl)), match)
  ELSE LET x == extract(Tail(tpl))
       IN  IF ~x.ok THEN <<"$">> \o expand(Tail(tpl), match)
           ELSE (IF x.name = <<"0">> THEN match ELSE <<>>) \o expand(x.rest, match)

\* one turn of the loop of Regexp.replaceAll: the next leftmost match at or
\* after searchPos is copied to buf as the expanded template (an empty match
\* right after a match is not replaced); without a match the rest of src is
\* copied and the loop is done
replaceStep(prog, src, repl, st) ==
  IF st.done THEN st
  ELSE LET a == IF st.searchPos > Len(src) THEN <<>> ELSE FindFrom(prog, src, st.searchPos)
       IN  IF a = <<>>
           THEN [st EXCEPT !.buf = @ \o SubSeq(src, st.lastMatchEnd + 1, Len(src)),
                           !.done = TRUE]
           ELSE LET kept == st.buf \o SubSeq(src, st.lastMatchEnd + 1, a[1])
                IN  [lastMatchEnd |-> a[2],
                     searchPos |-> IF st.searchPos + 1 > a[2] THEN st.searchPos + 1 ELSE a[2],
                     buf |-> IF a[2] > st.lastMatchEnd \/ a[1] = 0
                             THEN kept \o expand(repl, SubSeq(src, a[1] + 1, a[2]))
                             ELSE kept,
                     done |-> FALSE]

\* 2^k turns of the loop
RECURSIVE replaceTurns(_, _, _, _, _)
replaceTurns(prog, src, repl, k, st) ==
  IF st.done THEN st
  ELSE IF k = 0 THEN replaceStep(prog, src, repl, st)
  ELSE replaceTurns(prog, src, repl, k - 1, replaceTurns(prog, src, repl, k - 1, st))

\* the loop takes at most Len(src) + 2 turns
RECURSIVE Log2Up(_)
Log2Up(n) == IF n <= 1 THEN 0 ELSE 1 + Log2Up((n + 1) \div 2)

ReplaceAllString(prog, src, repl) ==
  IF ~MatchString(prog, src) THEN src
  ELSE replaceTurns(prog, src, repl, Log2Up(Len(src) + 2),
               [lastMatchEnd |-> 0, searchPos |-> 0, buf |-> <<>>, done |-> FALSE]).buf

\* OpenAI API Key (filter.go:82)
reOpenAIAPIKey ==
  Cat(<<Lit(<<"s", "k", "-">>), Rep(Set(Digit \cup Lower \cup Upper), 48, -1)>>)

\* OpenAI Project Key (filter.go:83)
reOpenAIProjectKey ==
  Cat(<<Lit(<<"p", "k", "-">>), Rep(Set(Digit \cup Lower \cup Upper), 48, -1)>>)

\* Generic API Key (filter.go:86)
reGenericAPIKey ==
  Cat(<<LitI(<<"a", "p", "i">>), Rep(Set({"-", "_"}), 0, 1), LitI(<<"k", "e", "y">>), Rep(Set(Space \cup {"\"", "'", ":", "="}), 1, -1), Rep(Set({"\"", "'"}), 0, -1), Rep(Set(Digit \cup Lower \cup Upper \cup {"-", "_"}), 8, -1), Rep(Set({"\"", "'"}), 0, -1)>>)

\* Bearer Token (filter.go:87)
reBearerToken ==
  Cat(<<LitI(<<"b", "e", "a", "r", "e", "r">>), Rep(Set(Space), 1, -1), Rep(Set(Digit \cup Lower \cup Upper \cup {"-", ".", "_"}), 2, -1)>>)

\* Authorization Header (filter.go:88)
reAuthorizationHeader ==
  Cat(<<LitI(<<"a", "u", "t", "h", "o", "r", "i", "z", "a", "t", "i", "o", "n">>), Rep(Set(Space \cup {"\"", "'", ":", "="}), 1, -1), Rep(Set({"\"", "'"}), 0, -1), Rep(Set(Digit \cup Lower \cup Upper \cup {"-", ".", "_"}), 2, -1), Rep(Set({"\"", "'"}), 0, -1)>>)

\* Export API Key (filter.go:91)
reExportAPIKey ==
  Cat(<<LitI(<<"e", "x", "p", "o", "r", "t">>), Rep(Set(Space), 1, -1), Rep(Set(Lower \cup Upper \cup {"_"}), 0, -1), Alt(<<LitI(<<"a", "p", "i">>), LitI(<<"k", "e", "y">>), LitI(<<"t", "o", "k", "e", "n">>), LitI(<<"s", "e", "c", "r", "e", "t">>), LitI(<<"p", "a", "s", "s", "w", "o", "r", "d">>)>>), Rep(Set(Lower \cup Upper \cup {"_"}), 0, -1), Lit(<<"=">>), Rep(Set({"\"", "'"}), 0, -1), Rep(NSet(Space \cup {"\"", "'"}), 8, -1), Rep(Set({"\"", "'"}), 0, -1)>>)

\* Set Environment (filter.go:92)
reSetEnvironment ==
  Cat(<<LitI(<<"s", "e", "t">>), Rep(Set(Space), 1, -1), Rep(Set(Lower \cup Upper \cup {"_"}), 0, -1), Alt(<<LitI(<<"a", "p", "i">>), LitI(<<"k", "e", "y">>), LitI(<<"t", "o", "k", "e", "n">>), LitI(<<"s", "e", "c", "r", "e", "t">>), LitI(<<"p", "a", "s", "s", "w", "o", "r", "d">>)>>), Rep(Set(Lower \cup Upper \cup {"_"}), 0, -1), Lit(<<"=">>), Rep(Set({"\"", "'"}), 0, -1), Rep(NSet(Space \cup {"\"", "'"}), 8, -1), Rep(Set({"\"", "'"}), 0, -1)>>)

\* Env Var with KEY (filter.go:95)
reEnvVarWithKEY ==
  Cat(<<Rep(Alt(<<Cat(<<LitI(<<"e", "x", "p", "o", "r", "t">>), Rep(Set(Space), 1, -1)>>), Cat(<<LitI(<<"s", "e", "t">>), Rep(Set(Space), 1, -1)>>)>>), 0, 1), Rep(Set(Lower \cup Upper \cup {"_"}), 0, -1), LitI(<<"k", "e", "y">>), Rep(Set(Lower \cup Upper \cup {"_"}), 0, -1), Lit(<<"=">>), Rep(Set({"\"", "'"}), 0, -1), Rep(NSet(Space \cup {"\"", "'"}), 8, -1), Rep(Set({"\"", "'"}), 0, -1)>>)

\* Env Var with TOKEN (filter.go:96)
reEnvVarWithTOKEN ==
  Cat(<<Rep(Alt(<<Cat(<<LitI(<<"e", "x", "p", "o", "r", "t">>), Rep(Set(Space), 1, -1)>>), Cat(<<LitI(<<"s", "e", "t">>), Rep(Set(Space), 1, -1)>>)>>), 0, 1), Rep(Set(Lower \cup Upper \cup {"_"}), 0, -1), LitI(<<"t", "o", "k", "e", "n">>), Rep(Set(Lower \cup Upper \cup {"_"}), 0, -1), Lit(<<"=">>), Rep(Set({"\"", "'"}), 0, -1), Rep(NSet(Space \cup {"\"", "'"}), 8, -1), Rep(Set({"\"", "'"}), 0, -1)>>)

\* Env Var with SECRET (filter.go:97)
reEnvVarWithSECRET ==
  Cat(<<Rep(Alt(<<Cat(<<LitI(<<"e", "x", "p", "o", "r", "t">>), Rep(Set(Space), 1, -1)>>), Cat(<<LitI(<<"s", "e", "t">>), Rep(Set(Space), 1, -1)>>)>>), 0, 1), Rep(Set(Lower \cup Upper \cup {"_"}), 0, -1), LitI(<<"s", "e", "c", "r", "e", "t">>), Rep(Set(Lower \cup Upper \cup {"_"}), 0, -1), Lit(<<"=">>), Rep(Set({"\"", "'"}), 0, -1), Rep(NSet(Space \cup {"\"", "'"}), 8, -1), Rep(Set({"\"", "'"}), 0, -1)>>)

\* Env Var with PASSWORD (filter.go:98)
reEnvVarWithPASSWORD ==
  Cat(<<Rep(Alt(<<Cat(<<LitI(<<"e", "x", "p", "o", "r", "t">>), Rep(Set(Space), 1, -1)>>), Cat(<<LitI(<<"s", "e", "t">>), Rep(Set(Space), 1, -1)>>)>>), 0, 1), Rep(Set(Lower \cup Upper \cup {"_"}), 0, -1), LitI(<<"p", "a", "s", "s", "w", "o", "r", "d">>), Rep(Set(Lower \cup Upper \cup {"_"}), 0, -1), Lit(<<"=">>), Rep(Set({"\"", "'"}), 0, -1), Rep(NSet(Space \cup {"\"", "'"}), 8, -1), Rep(Set({"\"", "'"}), 0, -1)>>)

\* Echo API Key (filter.go:101)
reEchoAPIKey ==
  Cat(<<LitI(<<"e", "c", "h", "o">>), Rep(Set(Space), 1, -1), Lit(<<"$">>), Rep(Set(Lower \cup Upper \cup {"_"}), 0, -1), Alt(<<LitI(<<"a", "p", "i">>), LitI(<<"k", "e", "y">>), LitI(<<"t", "o", "k", "e", "n">>), LitI(<<"s", "e", "c", "r", "e", "t">>), LitI(<<"p", "a", "s", "s", "w", "o", "r", "d">>)>>), Rep(Set(Lower \cup Upper \cup {"_"}), 0, -1)>>)

\* Echo Env Var (filter.go:102)
reEchoEnvVar ==
  Cat(<<LitI(<<"e", "c", "h", "o">>), Rep(Set(Space), 1, -1), Lit(<<"$">>), Rep(Set(Lower \cup Upper \cup {"_"}), 0, -1), Alt(<<LitI(<<"k", "e", "y">>), LitI(<<"t", "o", "k", "e", "n">>), LitI(<<"s", "e", "c", "r", "e", "t">>), LitI(<<"p", "a", "s", "s", "w", "o", "r", "d">>)>>), Rep(Set(Lower \cup Upper \cup {"_"}), 0, -1)>>)

\* Command Substitution Secret (filter.go:105)
reCommandSubstitutionSecret ==
  Cat(<<Lit(<<"$", "(">>), Rep(NSet({")"}), 0, -1), Alt(<<LitI(<<"a", "p", "i">>), LitI(<<"k", "e", "y">>), LitI(<<"t", "o", "k", "e", "n">>), LitI(<<"s", "e", "c", "r", "e", "t">>), LitI(<<"p", "a", "s", "s", "w", "o", "r", "d">>)>>), Rep(NSet({")"}), 0, -1), Lit(<<")">>)>>)

\* Standalone Secret Value (filter.go:108)
reStandaloneSecretValue ==
  Cat(<<Bol, Rep(Set(Digit \cup Lower \cup Upper \cup {"+", "-", ".", "/", "=", "_"}), 20, -1), Eol>>)

\* Revealed Secret Line (filter.go:111)
reRevealedSecretLine ==
  Cat(<<Alt(<<Bot, Set(Space)>>), Alt(<<Cat(<<LitI(<<"s", "k", "-">>), Rep(Set(Digit \cup Lower \cup Upper), 48, -1)>>), Cat(<<LitI(<<"p", "k", "-">>), Rep(Set(Digit \cup Lower \cup Upper), 48, -1)>>), Cat(<<LitI(<<"g", "h", "p", "_">>), Rep(Set(Digit \cup Lower \cup Upper), 36, 36)>>), Cat(<<LitI(<<"g", "h", "s", "_">>), Rep(Set(Digit \cup Lower \cup Upper), 36, 36)>>), Cat(<<LitI(<<"a", "k", "i", "a">>), Rep(Set(Digit \cup Lower \cup Upper), 16, 16)>>), Cat(<<LitI(<<"x", "o", "x">>), Set({"A", "B", "P", "R", "S", "a", "b", "p", "r", "s"}), Lit(<<"-">>), Rep(Set(Digit \cup Lower \cup Upper \cup {"-"}), 10, 72)>>)>>), Alt(<<Set(Space), Eot>>)>>)

\* OpenAI API Key Env (filter.go:114)
reOpenAIAPIKeyEnv ==
  Cat(<<Rep(Alt(<<Cat(<<LitI(<<"e", "x", "p", "o", "r", "t">>), Rep(Set(Space), 1, -1)>>), Cat(<<LitI(<<"s", "e", "t">>), Rep(Set(Space), 1, -1)>>)>>), 0, 1), LitI(<<"o", "p", "e", "n", "a", "i", "_", "a", "p", "i", "_", "k", "e", "y", "=">>), Rep(Set({"\"", "'"}), 0, -1), Rep(NSet(Space \cup {"\"", "'"}), 8, -1), Rep(Set({"\"", "'"}), 0, -1)>>)

\* Anthropic API Key Env (filter.go:115)
reAnthropicAPIKeyEnv ==
  Cat(<<Rep(Alt(<<Cat(<<LitI(<<"e", "x", "p", "o", "r", "t">>), Rep(Set(Space), 1, -1)>>), Cat(<<LitI(<<"s", "e", "t">>), Rep(Set(Space), 1, -1)>>)>>), 0, 1), LitI(<<"a", "n", "t", "h", "r", "o", "p", "i", "c", "_", "a", "p", "i", "_", "k", "e", "y", "=">>), Rep(Set({"\"", "'"}), 0, -1), Rep(NSet(Space \cup {"\"", "'"}), 8, -1), Rep(Set({"\"", "'"}), 0, -1)>>)

\* Google API Key Env (filter.go:116)
reGoogleAPIKeyEnv ==
  Cat(<<Rep(Alt(<<Cat(<<LitI(<<"e", "x", "p", "o", "r", "t">>), Rep(Set(Space), 1, -1)>>), Cat(<<LitI(<<"s", "e", "t">>), Rep(Set(Space), 1, -1)>>)>>), 0, 1), Alt(<<LitI(<<"g", "o", "o", "g", "l", "e", "_", "a", "p", "i", "_", "k", "e", "y">>), LitI(<<"g", "e", "m", "i", "n", "i", "_", "a", "p", "i", "_", "k", "e", "y">>)>>), Lit(<<"=">>), Rep(Set({"\"", "'"}), 0, -1), Rep(NSet(Space \cup {"\"", "'"}), 8, -1), Rep(Set({"\"", "'"}), 0, -1)>>)

\* AWS Keys Env (filter.go:117)
reAWSKeysEnv ==
  Cat(<<Rep(Alt(<<Cat(<<LitI(<<"e", "x", "p", "o", "r", "t">>), Rep(Set(Space), 1, -1)>>), Cat(<<LitI(<<"s", "e", "t">>), Rep(Set(Space), 1, -1)>>)>>), 0, 1), Alt(<<LitI(<<"a", "w", "s", "_", "a", "c", "c", "e", "s", "s", "_", "k", "e", "y", "_", "i", "d">>), LitI(<<"a", "w", "s", "_", "s", "e", "c", "r", "e", "t", "_", "a", "c", "c", "e", "s", "s", "_", "k", "e", "y">>)>>), Lit(<<"=">>), Rep(Set({"\"", "'"}), 0, -1), Rep(NSet(Space \cup {"\"", "'"}), 8, -1), Rep(Set({"\"", "'"}), 0, -1)>>)

\* GitHub Token Env (filter.go:118)
reGitHubTokenEnv ==
  Cat(<<Rep(Alt(<<Cat(<<LitI(<<"e", "x", "p", "o", "r", "t">>), Rep(Set(Space), 1, -1)>>), Cat(<<LitI(<<"s", "e", "t">>), Rep(Set(Space), 1, -1)>>)>>), 0, 1), Alt(<<LitI(<<"g", "i", "t", "h", "u", "b", "_", "t", "o", "k", "e", "n">>), LitI(<<"g", "h", "_", "t", "o", "k", "e", "n">>)>>), Lit(<<"=">>), Rep(Set({"\"", "'"}), 0, -1), Rep(NSet(Space \cup {"\"", "'"}), 8, -1), Rep(Set({"\"", "'"}), 0, -1)>>)

\* Azure Keys Env (filter.go:119)
reAzureKeysEnv ==
  Cat(<<Rep(Alt(<<Cat(<<LitI(<<"e", "x", "p", "o", "r", "t">>), Rep(Set(Space), 1, -1)>>), Cat(<<LitI(<<"s", "e", "t">>), Rep(Set(Space), 1, -1)>>)>>), 0, 1), Alt(<<LitI(<<"a", "z", "u", "r", "e", "_", "c", "l", "i", "e", "n", "t", "_", "s", "e", "c", "r", "e", "t">>), LitI(<<"a", "z", "u", "r", "e", "_", "t", "e", "n", "a", "n", "t", "_", "i", "d">>)>>), Lit(<<"=">>), Rep(Set({"\"", "'"}), 0, -1), Rep(NSet(Space \cup {"\"", "'"}), 8, -1), Rep(Set({"\"", "'"}), 0, -1)>>)

\* Slack Token Env (filter.go:120)
reSlackTokenEnv ==
  Cat(<<Rep(Alt(<<Cat(<<LitI(<<"e", "x", "p", "o", "r", "t">>), Rep(Set(Space), 1, -1)>>), Cat(<<LitI(<<"s", "e", "t">>), Rep(Set(Space), 1, -1)>>)>>), 0, 1), Alt(<<LitI(<<"s", "l", "a", "c", "k", "_", "t", "o", "k", "e", "n">>), LitI(<<"s", "l", "a", "c", "k", "_", "b", "o", "t", "_", "t", "o", "k", "e", "n">>)>>), Lit(<<"=">>), Rep(Set({"\"", "'"}), 0, -1), Rep(NSet(Space \cup {"\"", "'"}), 8, -1), Rep(Set({"\"", "'"}), 0, -1)>>)

\* DeepSeek API Key Env (filter.go:121)
reDeepSeekAPIKeyEnv ==
  Cat(<<Rep(Alt(<<Cat(<<LitI(<<"e", "x", "p", "o", "r", "t">>), Rep(Set(Space), 1, -1)>>), Cat(<<LitI(<<"s", "e", "t">>), Rep(Set(Space), 1, -1)>>)>>), 0, 1), LitI(<<"d", "e", "e", "p", "s", "e", "e", "k", "_", "a", "p", "i", "_", "k", "e", "y", "=">>), Rep(Set({"\"", "'"}), 0, -1), Rep(NSet(Space \cup {"\"", "'"}), 8, -1), Rep(Set({"\"", "'"}), 0, -1)>>)

\* Stripe Keys Env (filter.go:122)
reStripeKeysEnv ==
  Cat(<<Rep(Alt(<<Cat(<<LitI(<<"e", "x", "p", "o", "r", "t">>), Rep(Set(Space), 1, -1)>>), Cat(<<LitI(<<"s", "e", "t">>), Rep(Set(Space), 1, -1)>>)>>), 0, 1), Alt(<<LitI(<<"s", "t", "r", "i", "p", "e", "_", "s", "e", "c", "r", "e", "t", "_", "k", "e", "y">>), LitI(<<"s", "t", "r", "i", "p", "e", "_", "p", "u", "b", "l", "i", "s", "h", "a", "b", "l", "e", "_", "k", "e", "y">>)>>), Lit(<<"=">>), Rep(Set({"\"", "'"}), 0, -1), Rep(NSet(Space \cup {"\"", "'"}), 8, -1), Rep(Set({"\"", "'"}), 0, -1)>>)

\* Twilio Keys Env (filter.go:123)
reTwilioKeysEnv ==
  Cat(<<Rep(Alt(<<Cat(<<LitI(<<"e", "x", "p", "o", "r", "t">>), Rep(Set(Space), 1, -1)>>), Cat(<<LitI(<<"s", "e", "t">>), Rep(Set(Space), 1, -1)>>)>>), 0, 1), Alt(<<LitI(<<"t", "w", "i", "l", "i", "o", "_", "a", "u", "t", "h", "_", "t", "o", "k", "e", "n">>), LitI(<<"t", "w", "i", "l", "i", "o", "_", "a", "c", "c", "o", "u", "n", "t", "_", "s", "i", "d">>)>>), Lit(<<"=">>), Rep(Set({"\"", "'"}), 0, -1), Rep(NSet(Space \cup {"\"", "'"}), 8, -1), Rep(Set({"\"", "'"}), 0, -1)>>)

\* SendGrid API Key Env (filter.go:124)
reSendGridAPIKeyEnv ==
  Cat(<<Rep(Alt(<<Cat(<<LitI(<<"e", "x", "p", "o", "r", "t">>), Rep(Set(Space), 1, -1)>>), Cat(<<LitI(<<"s", "e", "t">>), Rep(Set(Space), 1, -1)>>)>>), 0, 1), LitI(<<"s", "e", "n", "d", "g", "r", "i", "d", "_", "a", "p", "i", "_", "k", "e", "y", "=">>), Rep(Set({"\"", "'"}), 0, -1), Rep(NSet(Space \cup {"\"", "'"}), 8, -1), Rep(Set({"\"", "'"}), 0, -1)>>)

\* Mailgun API Key Env (filter.go:125)
reMailgunAPIKeyEnv ==
  Cat(<<Rep(Alt(<<Cat(<<LitI(<<"e", "x", "p", "o", "r", "t">>), Rep(Set(Space), 1, -1)>>), Cat(<<LitI(<<"s", "e", "t">>), Rep(Set(Space), 1, -1)>>)>>), 0, 1), LitI(<<"m", "a", "i", "l", "g", "u", "n", "_", "a", "p", "i", "_", "k", "e", "y", "=">>), Rep(Set({"\"", "'"}), 0, -1), Rep(NSet(Space \cup {"\"", "'"}), 8, -1), Rep(Set({"\"", "'"}), 0, -1)>>)

\* Redis URL Env (filter.go:126)
reRedisURLEnv ==
  Cat(<<Rep(Alt(<<Cat(<<LitI(<<"e", "x", "p", "o", "r", "t">>), Rep(Set(Space), 1, -1)>>), Cat(<<LitI(<<"s", "e", "t">>), Rep(Set(Space), 1, -1)>>)>>), 0, 1), LitI(<<"r", "e", "d", "i", "s", "_", "u", "r", "l", "=">>), Rep(Set({"\"", "'"}), 0, -1), Rep(NSet(Space \cup {"\"", "'"}), 8, -1), Rep(Set({"\"", "'"}), 0, -1)>>)

\* MongoDB URI Env (filter.go:127)
reMongoDBURIEnv ==
  Cat(<<Rep(Alt(<<Cat(<<LitI(<<"e", "x", "p", "o", "r", "t">>), Rep(Set(Space), 1, -1)>>), Cat(<<LitI(<<"s", "e", "t">>), Rep(Set(Space), 1, -1)>>)>>), 0, 1), Alt(<<LitI(<<"m", "o", "n", "g", "o", "d", "b", "_", "u", "r", "i">>), LitI(<<"m", "o", "n", "g", "o", "_", "u", "r", "l">>)>>), Lit(<<"=">>), Rep(Set({"\"", "'"}), 0, -1), Rep(NSet(Space \cup {"\"", "'"}), 8, -1), Rep(Set({"\"", "'"}), 0, -1)>>)

\* Database URL Env (filter.go:128)
reDatabaseURLEnv ==
  Cat(<<Rep(Alt(<<Cat(<<LitI(<<"e", "x", "p", "o", "r", "t">>), Rep(Set(Space), 1, -1)>>), Cat(<<LitI(<<"s", "e", "t">>), Rep(Set(Space), 1, -1)>>)>>), 0, 1), Alt(<<LitI(<<"d", "a", "t", "a", "b", "a", "s", "e", "_", "u", "r", "l">>), LitI(<<"d", "b", "_", "u", "r", "l">>)>>), Lit(<<"=">>), Rep(Set({"\"", "'"}), 0, -1), Rep(NSet(Space \cup {"\"", "'"}), 8, -1), Rep(Set({"\"", "'"}), 0, -1)>>)

\* JWT Secret Env (filter.go:129)
reJWTSecretEnv ==
  Cat(<<Rep(Alt(<<Cat(<<LitI(<<"e", "x", "p", "o", "r", "t">>), Rep(Set(Space), 1, -1)>>), Cat(<<LitI(<<"s", "e", "t">>), Rep(Set(Space), 1, -1)>>)>>), 0, 1), Alt(<<LitI(<<"j", "w", "t", "_", "s", "e", "c", "r", "e", "t">>), LitI(<<"j", "w", "t", "_", "k", "e", "y">>)>>), Lit(<<"=">>), Rep(Set({"\"", "'"}), 0, -1), Rep(NSet(Space \cup {"\"", "'"}), 8, -1), Rep(Set({"\"", "'"}), 0, -1)>>)

\* Encryption Key Env (filter.go:130)
reEncryptionKeyEnv ==
  Cat(<<Rep(Alt(<<Cat(<<LitI(<<"e", "x", "p", "o", "r", "t">>), Rep(Set(Space), 1, -1)>>), Cat(<<LitI(<<"s", "e", "t">>), Rep(Set(Space), 1, -1)>>)>>), 0, 1), Alt(<<LitI(<<"e", "n", "c", "r", "y", "p", "t", "i", "o", "n", "_", "k", "e", "y">>), LitI(<<"s", "e", "c", "r", "e", "t", "_", "k", "e", "y">>), LitI(<<"s", "e", "s", "s", "i", "o", "n", "_", "s", "e", "c", "r", "e", "t">>)>>), Lit(<<"=">>), Rep(Set({"\"", "'"}), 0, -1), Rep(NSet(Space \cup {"\"", "'"}), 8, -1), Rep(Set({"\"", "'"}), 0, -1)>>)

\* Docker Registry Env (filter.go:131)
reDockerRegistryEnv ==
  Cat(<<Rep(Alt(<<Cat(<<LitI(<<"e", "x", "p", "o", "r", "t">>), Rep(Set(Space), 1, -1)>>), Cat(<<LitI(<<"s", "e", "t">>), Rep(Set(Space), 1, -1)>>)>>), 0, 1), Alt(<<LitI(<<"d", "o", "c", "k", "e", "r", "_", "p", "a", "s", "s", "w", "o", "r", "d">>), LitI(<<"r", "e", "g", "i", "s", "t", "r", "y", "_", "t", "o", "k", "e", "n">>)>>), Lit(<<"=">>), Rep(Set({"\"", "'"}), 0, -1), Rep(NSet(Space \cup {"\"", "'"}), 8, -1), Rep(Set({"\"", "'"}), 0, -1)>>)

\* CI/CD Token Env (filter.go:132)
reCICDTokenEnv ==
  Cat(<<Rep(Alt(<<Cat(<<LitI(<<"e", "x", "p", "o", "r", "t">>), Rep(Set(Space), 1, -1)>>), Cat(<<LitI(<<"s", "e", "t">>), Rep(Set(Space), 1, -1)>>)>>), 0, 1), Alt(<<LitI(<<"c", "i", "_", "t", "o", "k", "e", "n">>), LitI(<<"g", "i", "t", "l", "a", "b", "_", "t", "o", "k", "e", "n">>), LitI(<<"j", "e", "n", "k", "i", "n", "s", "_", "t", "o", "k", "e", "n">>)>>), Lit(<<"=">>), Rep(Set({"\"", "'"}), 0, -1), Rep(NSet(Space \cup {"\"", "'"}), 8, -1), Rep(Set({"\"", "'"}), 0, -1)>>)

\* Cloud Provider Keys (filter.go:133)
reCloudProviderKeys ==
  Cat(<<Rep(Alt(<<Cat(<<LitI(<<"e", "x", "p", "o", "r", "t">>), Rep(Set(Space), 1, -1)>>), Cat(<<LitI(<<"s", "e", "t">>), Rep(Set(Space), 1, -1)>>)>>), 0, 1), Alt(<<LitI(<<"d", "i", "g", "i", "t", "a", "l", "o", "c", "e", "a", "n", "_", "t", "o", "k", "e", "n">>), LitI(<<"v", "u", "l", "t", "r", "_", "a", "p", "i", "_", "k", "e", "y">>), LitI(<<"l", "i", "n", "o", "d", "e", "_", "t", "o", "k", "e", "n">>)>>), Lit(<<"=">>), Rep(Set({"\"", "'"}), 0, -1), Rep(NSet(Space \cup {"\"", "'"}), 8, -1), Rep(Set({"\"", "'"}), 0, -1)>>)

\* JWT Token (filter.go:136)
reJWTToken ==
  Cat(<<Lit(<<"e", "y", "J">>), Rep(Set(Digit \cup Lower \cup Upper \cup {"-", "_"}), 0, -1), Lit(<<".", "e", "y", "J">>), Rep(Set(Digit \cup Lower \cup Upper \cup {"-", "_"}), 0, -1), Lit(<<".">>), Rep(Set(Digit \cup Lower \cup Upper \cup {"-", "_"}), 0, -1)>>)

\* Password Parameter (filter.go:139)
rePasswordParameter ==
  Cat(<<LitI(<<"-", "-", "p", "a", "s", "s", "w", "o", "r", "d">>), Rep(Set(Space \cup {"="}), 1, -1), Rep(Set({"\"", "'"}), 0, -1), Rep(NSet(Space \cup {"\"", "'"}), 4, -1), Rep(Set({"\"", "'"}), 0, -1)>>)

\* Token Parameter (filter.go:140)
reTokenParameter ==
  Cat(<<LitI(<<"-", "-", "t", "o", "k", "e", "n">>), Rep(Set(Space \cup {"="}), 1, -1), Rep(Set({"\"", "'"}), 0, -1), Rep(NSet(Space \cup {"\"", "'"}), 8, -1), Rep(Set({"\"", "'"}), 0, -1)>>)

\* Secret Parameter (filter.go:141)
reSecretParameter ==
  Cat(<<LitI(<<"-", "-", "s", "e", "c", "r", "e", "t">>), Rep(Set(Space \cup {"="}), 1, -1), Rep(Set({"\"", "'"}), 0, -1), Rep(NSet(Space \cup {"\"", "'"}), 8, -1), Rep(Set({"\"", "'"}), 0, -1)>>)

\* Database URL (filter.go:144)
reDatabaseURL ==
  Cat(<<Alt(<<LitI(<<"m", "y", "s", "q", "l">>), LitI(<<"p", "o", "s", "t", "g", "r", "e", "s", "q", "l">>), LitI(<<"m", "o", "n", "g", "o", "d", "b">>), LitI(<<"r", "e", "d", "i", "s">>)>>), Lit(<<":", "/", "/">>), Rep(NSet({"@"}), 1, -1), Lit(<<":">>), Rep(NSet({"@"}), 1, -1), Lit(<<"@">>), Rep(NSet(Space), 1, -1)>>)

\* Curl Header Secret (filter.go:147)
reCurlHeaderSecret ==
  Cat(<<LitI(<<"c", "u", "r", "l">>), Rep(NSet({"|"}), 0, -1), LitI(<<"-", "h">>), Rep(Set({"\"", "'"}), 0, -1), Rep(NSet({"\"", "'"}), 0, -1), Alt(<<LitI(<<"a", "u", "t", "h", "o", "r", "i", "z", "a", "t", "i", "o", "n">>), Cat(<<LitI(<<"a", "p", "i">>), Rep(Set({"-", "_"}), 0, 1), LitI(<<"k", "e", "y">>)>>), LitI(<<"t", "o", "k", "e", "n">>)>>), Rep(Set({"\"", "'"}), 0, -1), Set({":", "="}), Rep(Set({"\"", "'"}), 0, -1), Rep(NSet(Space \cup {"\"", "'"}), 8, -1), Rep(Set({"\"", "'"}), 0, -1)>>)

\* Wget Header Secret (filter.go:148)
reWgetHeaderSecret ==
  Cat(<<LitI(<<"w", "g", "e", "t">>), Rep(NSet({"|"}), 0, -1), LitI(<<"-", "-", "h", "e", "a", "d", "e", "r">>), Rep(Set({"\"", "'", "="}), 0, -1), Rep(NSet({"\"", "'"}), 0, -1), Alt(<<LitI(<<"a", "u", "t", "h", "o", "r", "i", "z", "a", "t", "i", "o", "n">>), Cat(<<LitI(<<"a", "p", "i">>), Rep(Set({"-", "_"}), 0, 1), LitI(<<"k", "e", "y">>)>>), LitI(<<"t", "o", "k", "e", "n">>)>>), Rep(Set({"\"", "'"}), 0, -1), Set({":", "="}), Rep(Set({"\"", "'"}), 0, -1), Rep(NSet(Space \cup {"\"", "'"}), 8, -1), Rep(Set({"\"", "'"}), 0, -1)>>)

\* Email in Auth were the address matched without the word before it
reEmailAnywhere ==
  Cat(<<Rep(Set(Digit \cup Lower \cup Upper \cup {"%", "+", "-", ".", "_"}), 1, -1), Lit(<<"@">>), Rep(Set(Digit \cup Lower \cup Upper \cup {"-", "."}), 1, -1), Lit(<<".">>), Rep(Set(Lower \cup Upper), 2, -1)>>)

\* Email in Auth (filter.go:170)
reEmailInAuth ==
  Cat(<<Alt(<<LitI(<<"u", "s", "e", "r">>), LitI(<<"u", "s", "e", "r", "n", "a", "m", "e">>), LitI(<<"e", "m", "a", "i", "l">>), LitI(<<"l", "o", "g", "i", "n">>)>>), Rep(Set(Space \cup {"\"", "'", ":", "="}), 1, -1), Rep(Set({"\"", "'"}), 0, -1), Cat(<<Rep(Set(Digit \cup Lower \cup Upper \cup {"%", "+", "-", ".", "_"}), 1, -1), Lit(<<"@">>), Rep(Set(Digit \cup Lower \cup Upper \cup {"-", "."}), 1, -1), Lit(<<".">>), Rep(Set(Lower \cup Upper), 2, -1)>>), Rep(Set({"\"", "'"}), 0, -1)>>)

\* Email in curl -u (filter.go:171)
reEmailInCurlU ==
  Cat(<<LitI(<<"c", "u", "r", "l">>), Rep(Set(Space), 1, -1), Rep(NSet({"|"}), 0, -1), LitI(<<"-", "u">>), Rep(Set(Space), 1, -1), Cat(<<Rep(Set(Digit \cup Lower \cup Upper \cup {"%", "+", "-", ".", "_"}), 1, -1), Lit(<<"@">>), Rep(Set(Digit \cup Lower \cup Upper \cup {"-", "."}), 1, -1), Lit(<<".">>), Rep(Set(Lower \cup Upper), 2, -1)>>), Lit(<<":">>), Rep(NSet(Space \cup {"@"}), 1, -1)>>)

\* Private IP (filter.go:174)
rePrivateIP ==
  Cat(<<Alt(<<Lit(<<"1", "9", "2", ".", "1", "6", "8", ".">>), Lit(<<"1", "0", ".">>), Cat(<<Lit(<<"1", "7", "2", ".">>), Alt(<<Cat(<<Lit(<<"1">>), Set({"6", "7", "8", "9"})>>), Cat(<<Lit(<<"2">>), Set(Digit)>>), Cat(<<Lit(<<"3">>), Set({"0", "1"})>>)>>), Lit(<<".">>)>>)>>), Rep(Set(Digit), 1, 3), Lit(<<".">>), Rep(Set(Digit), 1, 3), Rep(Cat(<<Lit(<<":">>), Rep(Set(Digit), 1, -1)>>), 0, 1)>>)

\* SSH Private Key (filter.go:177)
reSSHPrivateKey ==
  Cat(<<Lit(<<"-", "-", "-", "-", "-", "B", "E", "G", "I", "N", " ">>), Rep(Alt(<<Lit(<<"R", "S", "A", " ">>), Lit(<<"E", "C", " ">>), Lit(<<"O", "P", "E", "N", "S", "S", "H", " ">>)>>), 0, 1), Lit(<<"P", "R", "I", "V", "A", "T", "E", " ", "K", "E", "Y", "-", "-", "-", "-", "-">>)>>)

\* AWS Access Key (filter.go:180)
reAWSAccessKey ==
  Cat(<<Lit(<<"A", "K", "I", "A">>), Rep(Set(Digit \cup Upper), 16, 16)>>)

\* AWS Secret Key (filter.go:181)
reAWSSecretKey ==
  Cat(<<LitI(<<"a", "w", "s">>), Rep(Set({"-", "_"}), 0, 1), LitI(<<"s", "e", "c", "r", "e", "t">>), Rep(Set({"-", "_"}), 0, 1), LitI(<<"a", "c", "c", "e", "s", "s">>), Rep(Set({"-", "_"}), 0, 1), LitI(<<"k", "e", "y">>), Rep(Set(Space \cup {"\"", "'", ":", "="}), 1, -1), Rep(Set({"\"", "'"}), 0, -1), Rep(Set(Digit \cup Lower \cup Upper \cup {"+", "/"}), 40, 40), Rep(Set({"\"", "'"}), 0, -1)>>)

\* GitHub Token (filter.go:184)
reGitHubToken ==
  Cat(<<Lit(<<"g", "h", "p", "_">>), Rep(Set(Digit \cup Lower \cup Upper), 36, 36)>>)

\* GitHub App Token (filter.go:185)
reGitHubAppToken ==
  Cat(<<Lit(<<"g", "h", "s", "_">>), Rep(Set(Digit \cup Lower \cup Upper), 36, 36)>>)

\* GitHub OAuth Token (filter.go:186)
reGitHubOAuthToken ==
  Cat(<<Lit(<<"g", "h", "o", "_">>), Rep(Set(Digit \cup Lower \cup Upper), 36, 36)>>)

\* Slack Token (filter.go:189)
reSlackToken ==
  Cat(<<Lit(<<"x", "o", "x">>), Set({"a", "b", "p", "r", "s"}), Lit(<<"-">>), Rep(Set(Digit \cup Lower \cup Upper \cup {"-"}), 10, 72)>>)

\* Password in URL (filter.go:192)
rePasswordInURL ==
  Cat(<<Lit(<<":", "/", "/">>), Rep(NSet({":", "@"}), 1, -1), Lit(<<":">>), Rep(NSet(Space \cup {"@"}), 4, -1), Lit(<<"@">>)>>)

\* Potential Secret (filter.go:214)
rePotentialSecret ==
  Cat(<<Wb, Rep(Set(Digit \cup Lower \cup Upper), 32, -1), Wb>>)

\* Credit Card (filter.go:217)
reCreditCard ==
  Cat(<<Wb, Alt(<<Cat(<<Lit(<<"4">>), Rep(Set(Digit), 3, 3)>>), Cat(<<Lit(<<"5">>), Set({"1", "2", "3", "4", "5"}), Rep(Set(Digit), 2, 2)>>), Lit(<<"6", "0", "1", "1">>), Cat(<<Lit(<<"6", "5">>), Rep(Set(Digit), 2, 2)>>)>>), Rep(Set(Space), 0, -1), Rep(Set(Digit), 4, 4), Rep(Set(Space), 0, -1), Rep(Set(Digit), 4, 4), Rep(Set(Space), 0, -1), Rep(Set(Digit), 4, 4), Wb>>)

\* SSN (filter.go:220)
reSSN ==
  Cat(<<Wb, Rep(Set(Digit), 3, 3), Lit(<<"-">>), Rep(Set(Digit), 2, 2), Lit(<<"-">>), Rep(Set(Digit), 4, 4), Wb>>)

\* Phone Number (filter.go:223)
rePhoneNumber ==
  Cat(<<Alt(<<LitI(<<"p", "h", "o", "n", "e">>), LitI(<<"t", "e", "l">>), LitI(<<"m", "o", "b", "i", "l", "e">>)>>), Rep(Set(Space \cup {"\"", "'", ":", "="}), 1, -1), Rep(Set({"\"", "'"}), 0, -1), Cat(<<Rep(Set({"+"}), 0, 1), Rep(Set(Digit \cup Space \cup {"(", ")", "-"}), 10, -1)>>), Rep(Set({"\"", "'"}), 0, -1)>>)

basicPatterns == <<
  [name |-> "OpenAI API Key",
   pattern |-> "sk-[a-zA-Z0-9]{48,}"],
  [name |-> "OpenAI Project Key",
   pattern |-> "pk-[a-zA-Z0-9]{48,}"],
  [name |-> "Generic API Key",
   pattern |-> "(?i)api[_-]?key['\"=:\\s]+['\"]*([a-zA-Z0-9_\\-]{8,})['\"]*"],
  [name |-> "Bearer Token",
   pattern |-> "(?i)bearer\\s+([a-zA-Z0-9_\\-\\.]{2,})"],
  [name |-> "Authorization Header",
   pattern |-> "(?i)authorization['\"=:\\s]+['\"]*([a-zA-Z0-9_\\-\\.]{2,})['\"]*"],
  [name |-> "Export API Key",
   pattern |-> "(?i)export\\s+[A-Z_]*(?:API|KEY|TOKEN|SECRET|PASSWORD)[A-Z_]*=['\"]*([^'\"'\\s]{8,})['\"]*"],
  [name |-> "Set Environment",
   pattern |-> "(?i)set\\s+[A-Z_]*(?:API|KEY|TOKEN|SECRET|PASSWORD)[A-Z_]*=['\"]*([^'\"'\\s]{8,})['\"]*"],
  [name |-> "Env Var with KEY",
   pattern |-> "(?i)(?:export\\s+|set\\s+)?[A-Z_]*KEY[A-Z_]*=['\"]*([^'\"'\\s]{8,})['\"]*"],
  [name |-> "Env Var with TOKEN",
   pattern |-> "(?i)(?:export\\s+|set\\s+)?[A-Z_]*TOKEN[A-Z_]*=['\"]*([^'\"'\\s]{8,})['\"]*"],
  [name |-> "Env Var with SECRET",
   pattern |-> "(?i)(?:export\\s+|set\\s+)?[A-Z_]*SECRET[A-Z_]*=['\"]*([^'\"'\\s]{8,})['\"]*"],
  [name |-> "Env Var with PASSWORD",
   pattern |-> "(?i)(?:export\\s+|set\\s+)?[A-Z_]*PASSWORD[A-Z_]*=['\"]*([^'\"'\\s]{8,})['\"]*"],
  [name |-> "Echo API Key",
   pattern |-> "(?i)echo\\s+\\$[A-Z_]*(?:API|KEY|TOKEN|SECRET|PASSWORD)[A-Z_]*"],
  [name |-> "Echo Env Var",
   pattern |-> "(?i)echo\\s+\\$[A-Z_]*(?:KEY|TOKEN|SECRET|PASSWORD)[A-Z_]*"],
  [name |-> "Command Substitution Secret",
   pattern |-> "(?i)\\$\\([^)]*(?:API|KEY|TOKEN|SECRET|PASSWORD)[^)]*\\)"],
  [name |-> "Standalone Secret Value",
   pattern |-> "(?m)^[a-zA-Z0-9_\\-\\.+/=]{20,}$"],
  [name |-> "Revealed Secret Line",
   pattern |-> "(?i)(?:^|\\s)(?:sk-[a-zA-Z0-9]{48,}|pk-[a-zA-Z0-9]{48,}|ghp_[a-zA-Z0-9]{36}|ghs_[a-zA-Z0-9]{36}|AKIA[0-9A-Z]{16}|xox[baprs]-[0-9a-zA-Z\\-]{10,72})(?:\\s|$)"],
  [name |-> "OpenAI API Key Env",
   pattern |-> "(?i)(?:export\\s+|set\\s+)?OPENAI_API_KEY=['\"]*([^'\"'\\s]{8,})['\"]*"],
  [name |-> "Anthropic API Key Env",
   pattern |-> "(?i)(?:export\\s+|set\\s+)?ANTHROPIC_API_KEY=['\"]*([^'\"'\\s]{8,})['\"]*"],
  [name |-> "Google API Key Env",
   pattern |-> "(?i)(?:export\\s+|set\\s+)?(?:GOOGLE_API_KEY|GEMINI_API_KEY)=['\"]*([^'\"'\\s]{8,})['\"]*"],
  [name |-> "AWS Keys Env",
   pattern |-> "(?i)(?:export\\s+|set\\s+)?(?:AWS_ACCESS_KEY_ID|AWS_SECRET_ACCESS_KEY)=['\"]*([^'\"'\\s]{8,})['\"]*"],
  [name |-> "GitHub Token Env",
   pattern |-> "(?i)(?:export\\s+|set\\s+)?(?:GITHUB_TOKEN|GH_TOKEN)=['\"]*([^'\"'\\s]{8,})['\"]*"],
  [name |-> "Azure Keys Env",
   pattern |-> "(?i)(?:export\\s+|set\\s+)?(?:AZURE_CLIENT_SECRET|AZURE_TENANT_ID)=['\"]*([^'\"'\\s]{8,})['\"]*"],
  [name |-> "Slack Token Env",
   pattern |-> "(?i)(?:export\\s+|set\\s+)?(?:SLACK_TOKEN|SLACK_BOT_TOKEN)=['\"]*([^'\"'\\s]{8,})['\"]*"],
  [name |-> "DeepSeek API Key Env",
   pattern |-> "(?i)(?:export\\s+|set\\s+)?DEEPSEEK_API_KEY=['\"]*([^'\"'\\s]{8,})['\"]*"],
  [name |-> "Stripe Keys Env",
   pattern |-> "(?i)(?:export\\s+|set\\s+)?(?:STRIPE_SECRET_KEY|STRIPE_PUBLISHABLE_KEY)=['\"]*([^'\"'\\s]{8,})['\"]*"],
  [name |-> "Twilio Keys Env",
   pattern |-> "(?i)(?:export\\s+|set\\s+)?(?:TWILIO_AUTH_TOKEN|TWILIO_ACCOUNT_SID)=['\"]*([^'\"'\\s]{8,})['\"]*"],
  [name |-> "SendGrid API Key Env",
   pattern |-> "(?i)(?:export\\s+|set\\s+)?SENDGRID_API_KEY=['\"]*([^'\"'\\s]{8,})['\"]*"],
  [name |-> "Mailgun API Key Env",
   pattern |-> "(?i)(?:export\\s+|set\\s+)?MAILGUN_API_KEY=['\"]*([^'\"'\\s]{8,})['\"]*"],
  [name |-> "Redis URL Env",
   pattern |-> "(?i)(?:export\\s+|set\\s+)?REDIS_URL=['\"]*([^'\"'\\s]{8,})['\"]*"],
  [name |-> "MongoDB URI Env",
   pattern |-> "(?i)(?:export\\s+|set\\s+)?(?:MONGODB_URI|MONGO_URL)=['\"]*([^'\"'\\s]{8,})['\"]*"],
  [name |-> "Database URL Env",
   pattern |-> "(?i)(?:export\\s+|set\\s+)?(?:DATABASE_URL|DB_URL)=['\"]*([^'\"'\\s]{8,})['\"]*"],
  [name |-> "JWT Secret Env",
   pattern |-> "(?i)(?:export\\s+|set\\s+)?(?:JWT_SECRET|JWT_KEY)=['\"]*([^'\"'\\s]{8,})['\"]*"],
  [name |-> "Encryption Key Env",
   pattern |-> "(?i)(?:export\\s+|set\\s+)?(?:ENCRYPTION_KEY|SECRET_KEY|SESSION_SECRET)=['\"]*([^'\"'\\s]{8,})['\"]*"],
  [name |-> "Docker Registry Env",
   pattern |-> "(?i)(?:export\\s+|set\\s+)?(?:DOCKER_PASSWORD|REGISTRY_TOKEN)=['\"]*([^'\"'\\s]{8,})['\"]*"],
  [name |-> "CI/CD Token Env",
   pattern |-> "(?i)(?:export\\s+|set\\s+)?(?:CI_TOKEN|GITLAB_TOKEN|JENKINS_TOKEN)=['\"]*([^'\"'\\s]{8,})['\"]*"],
  [name |-> "Cloud Provider Keys",
   pattern |-> "(?i)(?:export\\s+|set\\s+)?(?:DIGITALOCEAN_TOKEN|VULTR_API_KEY|LINODE_TOKEN)=['\"]*([^'\"'\\s]{8,})['\"]*"],
  [name |-> "JWT Token",
   pattern |-> "eyJ[a-zA-Z0-9_\\-]*\\.eyJ[a-zA-Z0-9_\\-]*\\.[a-zA-Z0-9_\\-]*"],
  [name |-> "Password Parameter",
   pattern |-> "(?i)--password[=\\s]+['\"]*([^'\"'\\s]{4,})['\"]*"],
  [name |-> "Token Parameter",
   pattern |-> "(?i)--token[=\\s]+['\"]*([^'\"'\\s]{8,})['\"]*"],
  [name |-> "Secret Parameter",
   pattern |-> "(?i)--secret[=\\s]+['\"]*([^'\"'\\s]{8,})['\"]*"],
  [name |-> "Database URL",
   pattern |-> "(?i)(mysql|postgresql|mongodb|redis)://[^@]+:[^@]+@[^\\s]+"],
  [name |-> "Curl Header Secret",
   pattern |-> "(?i)curl[^|]*-H['\"]*[^'\"]*(?:authorization|api[_-]?key|token)['\"]*[=:]['\"]*([^'\"'\\s]{8,})['\"]*"],
  [name |-> "Wget Header Secret",
   pattern |-> "(?i)wget[^|]*--header[='\"]*[^'\"]*(?:authorization|api[_-]?key|token)['\"]*[=:]['\"]*([^'\"'\\s]{8,})['\"]*"]
>>

moderatePatterns == <<
  [name |-> "Email in Auth",
   pattern |-> "(?i)(?:user|username|email|login)['\"=:\\s]+['\"]*([a-zA-Z0-9._%+-]+@[a-zA-Z0-9.-]+\\.[a-zA-Z]{2,})['\"]*"],
  [name |-> "Email in curl -u",
   pattern |-> "(?i)curl\\s+[^|]*-u\\s+([a-zA-Z0-9._%+-]+@[a-zA-Z0-9.-]+\\.[a-zA-Z]{2,}):([^@\\s]+)"],
  [name |-> "Private IP",
   pattern |-> "(?:192\\.168\\.|10\\.|172\\.(?:1[6-9]|2[0-9]|3[01])\\.)\\d{1,3}\\.\\d{1,3}(?::\\d+)?"],
  [name |-> "SSH Private Key",
   pattern |-> "-----BEGIN (?:RSA |EC |OPENSSH )?PRIVATE KEY-----"],
  [name |-> "AWS Access Key",
   pattern |-> "AKIA[0-9A-Z]{16}"],
  [name |-> "AWS Secret Key",
   pattern |-> "(?i)aws[_-]?secret[_-]?access[_-]?key['\"=:\\s]+['\"]*([a-zA-Z0-9/+]{40})['\"]*"],
  [name |-> "GitHub Token",
   pattern |-> "ghp_[a-zA-Z0-9]{36}"],
  [name |-> "GitHub App Token",
   pattern |-> "ghs_[a-zA-Z0-9]{36}"],
  [name |-> "GitHub OAuth Token",
   pattern |-> "gho_[a-zA-Z0-9]{36}"],
  [name |-> "Slack Token",
   pattern |-> "xox[baprs]-[0-9a-zA-Z-]{10,72}"],
  [name |-> "Password in URL",
   pattern |-> "(?i)://[^:@]+:([^@\\s]{4,})@"]
>>

strictPatterns == <<
  [name |-> "Potential Secret",
   pattern |-> "\\b[a-zA-Z0-9]{32,}\\b"],
  [name |-> "Credit Card",
   pattern |-> "\\b(?:4\\d{3}|5[1-5]\\d{2}|6011|65\\d{2})\\s*\\d{4}\\s*\\d{4}\\s*\\d{4}\\b"],
  [name |-> "SSN",
   pattern |-> "\\b\\d{3}-\\d{2}-\\d{4}\\b"],
  [name |-> "Phone Number",
   pattern |-> "(?i)(?:phone|tel|mobile)['\"=:\\s]+['\"]*([+]?[\\d\\s\\-\\(\\)]{10,})['\"]*"]
>>

builtinRegexp(expr) ==
  CASE expr = "sk-[a-zA-Z0-9]{48,}" ->
         reOpenAIAPIKey
    [] expr = "pk-[a-zA-Z0-9]{48,}" ->
         reOpenAIProjectKey
    [] expr = "(?i)api[_-]?key['\"=:\\s]+['\"]*([a-zA-Z0-9_\\-]{8,})['\"]*" ->
         reGenericAPIKey
    [] expr = "(?i)bearer\\s+([a-zA-Z0-9_\\-\\.]{2,})" ->
         reBearerToken
    [] expr = "(?i)authorization['\"=:\\s]+['\"]*([a-zA-Z0-9_\\-\\.]{2,})['\"]*" ->
         reAuthorizationHeader
    [] expr = "(?i)export\\s+[A-Z_]*(?:API|KEY|TOKEN|SECRET|PASSWORD)[A-Z_]*=['\"]*([^'\"'\\s]{8,})['\"]*" ->
         reExportAPIKey
    [] expr = "(?i)set\\s+[A-Z_]*(?:API|KEY|TOKEN|SECRET|PASSWORD)[A-Z_]*=['\"]*([^'\"'\\s]{8,})['\"]*" ->
         reSetEnvironment
    [] expr = "(?i)(?:export\\s+|set\\s+)?[A-Z_]*KEY[A-Z_]*=['\"]*([^'\"'\\s]{8,})['\"]*" ->
         reEnvVarWithKEY
    [] expr = "(?i)(?:export\\s+|set\\s+)?[A-Z_]*TOKEN[A-Z_]*=['\"]*([^'\"'\\s]{8,})['\"]*" ->
         reEnvVarWithTOKEN
    [] expr = "(?i)(?:export\\s+|set\\s+)?[A-Z_]*SECRET[A-Z_]*=['\"]*([^'\"'\\s]{8,})['\"]*" ->
         reEnvVarWithSECRET
    [] expr = "(?i)(?:export\\s+|set\\s+)?[A-Z_]*PASSWORD[A-Z_]*=['\"]*([^'\"'\\s]{8,})['\"]*" ->
         reEnvVarWithPASSWORD
    [] expr = "(?i)echo\\s+\\$[A-Z_]*(?:API|KEY|TOKEN|SECRET|PASSWORD)[A-Z_]*" ->
         reEchoAPIKey
    [] expr = "(?i)echo\\s+\\$[A-Z_]*(?:KEY|TOKEN|SECRET|PASSWORD)[A-Z_]*" ->
         reEchoEnvVar
    [] expr = "(?i)\\$\\([^)]*(?:API|KEY|TOKEN|SECRET|PASSWORD)[^)]*\\)" ->
         reCommandSubstitutionSecret
    [] expr = "(?m)^[a-zA-Z0-9_\\-\\.+/=]{20,}$" ->
         reStandaloneSecretValue
    [] expr = "(?i)(?:^|\\s)(?:sk-[a-zA-Z0-9]{48,}|pk-[a-zA-Z0-9]{48,}|ghp_[a-zA-Z0-9]{36}|ghs_[a-zA-Z0-9]{36}|AKIA[0-9A-Z]{16}|xox[baprs]-[0-9a-zA-Z\\-]{10,72})(?:\\s|$)" ->
         reRevealedSecretLine
    [] expr = "(?i)(?:export\\s+|set\\s+)?OPENAI_API_KEY=['\"]*([^'\"'\\s]{8,})['\"]*" ->
         reOpenAIAPIKeyEnv
    [] expr = "(?i)(?:export\\s+|set\\s+)?ANTHROPIC_API_KEY=['\"]*([^'\"'\\s]{8,})['\"]*" ->
         reAnthropicAPIKeyEnv
    [] expr = "(?i)(?:export\\s+|set\\s+)?(?:GOOGLE_API_KEY|GEMINI_API_KEY)=['\"]*([^'\"'\\s]{8,})['\"]*" ->
         reGoogleAPIKeyEnv
    [] expr = "(?i)(?:export\\s+|set\\s+)?(?:AWS_ACCESS_KEY_ID|AWS_SECRET_ACCESS_KEY)=['\"]*([^'\"'\\s]{8,})['\"]*" ->
         reAWSKeysEnv
    [] expr = "(?i)(?:export\\s+|set\\s+)?(?:GITHUB_TOKEN|GH_TOKEN)=['\"]*([^'\"'\\s]{8,})['\"]*" ->
         reGitHubTokenEnv
    [] expr = "(?i)(?:export\\s+|set\\s+)?(?:AZURE_CLIENT_SECRET|AZURE_TENANT_ID)=['\"]*([^'\"'\\s]{8,})['\"]*" ->
         reAzureKeysEnv
    [] expr = "(?i)(?:export\\s+|set\\s+)?(?:SLACK_TOKEN|SLACK_BOT_TOKEN)=['\"]*([^'\"'\\s]{8,})['\"]*" ->
         reSlackTokenEnv
    [] expr = "(?i)(?:export\\s+|set\\s+)?DEEPSEEK_API_KEY=['\"]*([^'\"'\\s]{8,})['\"]*" ->
         reDeepSeekAPIKeyEnv
    [] expr = "(?i)(?:export\\s+|set\\s+)?(?:STRIPE_SECRET_KEY|STRIPE_PUBLISHABLE_KEY)=['\"]*([^'\"'\\s]{8,})['\"]*" ->
         reStripeKeysEnv
    [] expr = "(?i)(?:export\\s+|set\\s+)?(?:TWILIO_AUTH_TOKEN|TWILIO_ACCOUNT_SID)=['\"]*([^'\"'\\s]{8,})['\"]*" ->
         reTwilioKeysEnv
    [] expr = "(?i)(?:export\\s+|set\\s+)?SENDGRID_API_KEY=['\"]*([^'\"'\\s]{8,})['\"]*" ->
         reSendGridAPIKeyEnv
    [] expr = "(?i)(?:export\\s+|set\\s+)?MAILGUN_API_KEY=['\"]*([^'\"'\\s]{8,})['\"]*" ->
         reMailgunAPIKeyEnv
    [] expr = "(?i)(?:export\\s+|set\\s+)?REDIS_URL=['\"]*([^'\"'\\s]{8,})['\"]*" ->
         reRedisURLEnv
    [] expr = "(?i)(?:export\\s+|set\\s+)?(?:MONGODB_URI|MONGO_URL)=['\"]*([^'\"'\\s]{8,})['\"]*" ->
         reMongoDBURIEnv
    [] expr = "(?i)(?:export\\s+|set\\s+)?(?:DATABASE_URL|DB_URL)=['\"]*([^'\"'\\s]{8,})['\"]*" ->
         reDatabaseURLEnv
    [] expr = "(?i)(?:export\\s+|set\\s+)?(?:JWT_SECRET|JWT_KEY)=['\"]*([^'\"'\\s]{8,})['\"]*" ->
         reJWTSecretEnv
    [] expr = "(?i)(?:export\\s+|set\\s+)?(?:ENCRYPTION_KEY|SECRET_KEY|SESSION_SECRET)=['\"]*([^'\"'\\s]{8,})['\"]*" ->
         reEncryptionKeyEnv
    [] expr = "(?i)(?:export\\s+|set\\s+)?(?:DOCKER_PASSWORD|REGISTRY_TOKEN)=['\"]*([^'\"'\\s]{8,})['\"]*" ->
         reDockerRegistryEnv
    [] expr = "(?i)(?:export\\s+|set\\s+)?(?:CI_TOKEN|GITLAB_TOKEN|JENKINS_TOKEN)=['\"]*([^'\"'\\s]{8,})['\"]*" ->
         reCICDTokenEnv
    [] expr = "(?i)(?:export\\s+|set\\s+)?(?:DIGITALOCEAN_TOKEN|VULTR_API_KEY|LINODE_TOKEN)=['\"]*([^'\"'\\s]{8,})['\"]*" ->
         reCloudProviderKeys
    [] expr = "eyJ[a-zA-Z0-9_\\-]*\\.eyJ[a-zA-Z0-9_\\-]*\\.[a-zA-Z0-9_\\-]*" ->
         reJWTToken
    [] expr = "(?i)--password[=\\s]+['\"]*([^'\"'\\s]{4,})['\"]*" ->
         rePasswordParameter
    [] expr = "(?i)--token[=\\s]+['\"]*([^'\"'\\s]{8,})['\"]*" ->
         reTokenParameter
    [] expr = "(?i)--secret[=\\s]+['\"]*([^'\"'\\s]{8,})['\"]*" ->
         reSecretParameter
    [] expr = "(?i)(mysql|postgresql|mongodb|redis)://[^@]+:[^@]+@[^\\s]+" ->
         reDatabaseURL
    [] expr = "(?i)curl[^|]*-H['\"]*[^'\"]*(?:authorization|api[_-]?key|token)['\"]*[=:]['\"]*([^'\"'\\s]{8,})['\"]*" ->
         reCurlHeaderSecret
    [] expr = "(?i)wget[^|]*--header[='\"]*[^'\"]*(?:authorization|api[_-]?key|token)['\"]*[=:]['\"]*([^'\"'\\s]{8,})['\"]*" ->
         reWgetHeaderSecret
    [] expr = "(?i)(?:user|username|email|login)['\"=:\\s]+['\"]*([a-zA-Z0-9._%+-]+@[a-zA-Z0-9.-]+\\.[a-zA-Z]{2,})['\"]*" ->
         reEmailInAuth
    [] expr = "(?i)curl\\s+[^|]*-u\\s+([a-zA-Z0-9._%+-]+@[a-zA-Z0-9.-]+\\.[a-zA-Z]{2,}):([^@\\s]+)" ->
         reEmailInCurlU
    [] expr = "(?:192\\.168\\.|10\\.|172\\.(?:1[6-9]|2[0-9]|3[01])\\.)\\d{1,3}\\.\\d{1,3}(?::\\d+)?" ->
         rePrivateIP
    [] expr = "-----BEGIN (?:RSA |EC |OPENSSH )?PRIVATE KEY-----" ->
         reSSHPrivateKey
    [] expr = "AKIA[0-9A-Z]{16}" ->
         reAWSAccessKey
    [] expr = "(?i)aws[_-]?secret[_-]?access[_-]?key['\"=:\\s]+['\"]*([a-zA-Z0-9/+]{40})['\"]*" ->
         reAWSSecretKey
    [] expr = "ghp_[a-zA-Z0-9]{36}" ->
         reGitHubToken
    [] expr = "ghs_[a-zA-Z0-9]{36}" ->
         reGitHubAppToken
    [] expr = "gho_[a-zA-Z0-9]{36}" ->
         reGitHubOAuthToken
    [] expr = "xox[baprs]-[0-9a-zA-Z-]{10,72}" ->
         reSlackToken
    [] expr = "(?i)://[^:@]+:([^@\\s]{4,})@" ->
         rePasswordInURL
    [] expr = "\\b[a-zA-Z0-9]{32,}\\b" ->
         rePotentialSecret
    [] expr = "\\b(?:4\\d{3}|5[1-5]\\d{2}|6011|65\\d{2})\\s*\\d{4}\\s*\\d{4}\\s*\\d{4}\\b" ->
         reCreditCard
    [] expr = "\\b\\d{3}-\\d{2}-\\d{4}\\b" ->
         reSSN
    [] expr = "(?i)(?:phone|tel|mobile)['\"=:\\s]+['\"]*([+]?[\\d\\s\\-\\(\\)]{10,})['\"]*" ->
         rePhoneNumber

(***************************************************************************)
(* pkg/privacy/filter.go: FilterConfig, NewFilter and the Filter methods.  *)
(***************************************************************************)
FilterLevelNone == 0
FilterLevelBasic == 1
FilterLevelModerate == 2
FilterLevelStrict == 3
FilterLevels == {FilterLevelNone, FilterLevelBasic, FilterLevelModerate, FilterLevelStrict}

\* "[REDACTED]", the replacement an empty ReplacementText stands for
Redacted == <<"[", "R", "E", "D", "A", "C", "T", "E", "D", "]">>

DefaultFilterConfig ==
  [Level |-> FilterLevelBasic, Enabled |-> TRUE, CustomPatterns |-> <<>>,
   ReplacementText |-> Redacted]

\* the custom expressions the model draws: the one of TestCustomPatterns, one
\* that also matches the empty string, and one that does not compile
reCustomMySecret ==
  Cat(<<Lit(<<"m", "y", "_", "s", "e", "c", "r", "e", "t", "_">>), Rep(Set(WordChar), 1, -1)>>)
reCustomXStar ==
  Rep(Set({"x"}), 0, -1)

\* every expression the model has compiled
Expressions ==
  {basicPatterns[k].pattern : k \in DOMAIN basicPatterns}
    \cup {moderatePatterns[k].pattern : k \in DOMAIN moderatePatterns}
    \cup {strictPatterns[k].pattern : k \in DOMAIN strictPatterns}
    \cup {"my_secret_\\w+", "x*", "["}

\* regexp.Compile: the program of the expression, or err
Compiled ==
  [expr \in Expressions |->
     CASE expr = "my_secret_\\w+" -> [err |-> FALSE, prog |-> Prog(reCustomMySecret)]
       [] expr = "x*" -> [err |-> FALSE, prog |-> Prog(reCustomXStar)]
       [] expr = "[" -> [err |-> TRUE, prog |-> Prog(Eps)]
       [] OTHER -> [err |-> FALSE, prog |-> Prog(builtinRegexp(expr))]]

Compile(expr) == Compiled[expr]

\* compileTable were the loop left at the first pattern that fails to compile
compileTableStopAtError(table, replacementText, level) ==
  LET bad == {k \in 1..Len(table) : Compile(table[k].pattern).err}
      n == IF bad = {} THEN Len(table)
           ELSE (CHOOSE k \in bad : \A j \in bad : k <= j) - 1
  IN  [k \in 1..n |->
         [Name |-> table[k].name, Pattern |-> table[k].pattern,
          Replacement |-> replacementText, Level |-> level]]

\* the SensitivePattern entries compilePatterns appends for one pattern table
compileTable(table, replacementText, level) ==
  LET ok == SelectSeq(table, LAMBDA p : ~Compile(p.pattern).err)
  IN  [k \in 1..Len(ok) |->
         [Name |-> ok[k].name, Pattern |-> ok[k].pattern,
          Replacement |-> replacementText, Level |-> level]]

customTable(config) ==
  [k \in 1..Len(config.CustomPatterns) |->
     [name |-> "Custom Pattern", pattern |-> config.CustomPatterns[k]]]

\* compilePatterns were the tables of a level added at that level alone
compilePatternsOneLevel(config) ==
  LET replacementText ==
        IF config.ReplacementText = <<>> THEN Redacted ELSE config.ReplacementText
  IN  compileTable(basicPatterns, replacementText, FilterLevelBasic)
      \o (IF config.Level = FilterLevelModerate
          THEN compileTable(moderatePatterns, replacementText, FilterLevelModerate)
          ELSE <<>>)
      \o (IF config.Level = FilterLevelStrict
          THEN compileTable(strictPatterns, replacementText, FilterLevelStrict)
          ELSE <<>>)
      \o compileTable(customTable(config), replacementText, FilterLevelBasic)

\* compilePatterns were the Strict table appended before the Moderate one
compilePatternsStrictFirst(config) ==
  LET replacementText ==
        IF config.ReplacementText = <<>> THEN Redacted ELSE config.ReplacementText
  IN  compileTable(basicPatterns, replacementText, FilterLevelBasic)
      \o (IF config.Level >= FilterLevelStrict
          THEN compileTable(strictPatterns, replacementText, FilterLevelStrict)
          ELSE <<>>)
      \o (IF config.Level >= FilterLevelModerate
          THEN compileTable(moderatePatterns, replacementText, FilterLevelModerate)
          ELSE <<>>)
      \o compileTable(customTable(config), replacementText, FilterLevelBasic)

\* compilePatterns were the custom patterns given the level Strict
compilePatternsCustomStrict(config) ==
  LET replacementText ==
        IF config.ReplacementText = <<>> THEN Redacted ELSE config.ReplacementText
  IN  compileTable(basicPatterns, replacementText, FilterLevelBasic)
      \o (IF config.Level >= FilterLevelModerate
          THEN compileTable(moderatePatterns, replacementText, FilterLevelModerate)
          ELSE <<>>)
      \o (IF config.Level >= FilterLevelStrict
          THEN compileTable(strictPatterns, replacementText, FilterLevelStrict)
          ELSE <<>>)
      \o compileTable(customTable(config), replacementText, FilterLevelStrict)

compilePatterns(config) ==
  LET replacementText ==
        IF config.ReplacementText = <<>> THEN Redacted ELSE config.ReplacementText
  IN  compileTable(basicPatterns, replacementText, FilterLevelBasic)
      \o (IF config.Level >= FilterLevelModerate
          THEN compileTable(moderatePatterns, replacementText, FilterLevelModerate)
          ELSE <<>>)
      \o (IF config.Level >= FilterLevelStrict
          THEN compileTable(strictPatterns, replacementText, FilterLevelStrict)
          ELSE <<>>)
      \o compileTable(customTable(config), replacementText, FilterLevelBasic)

\* the loop of FilterText over f.patterns[lo..hi], in order, on the
\* progressively filtered string
RECURSIVE applyPatterns(_, _, _, _, _)
applyPatterns(pats, lo, hi, level, filtered) ==
  IF lo > hi THEN filtered
  ELSE IF lo = hi
       THEN IF pats[lo].Level <= level
            THEN ReplaceAllString(Compile(pats[lo].Pattern).prog, filtered, pats[lo].Replacement)
            ELSE filtered
  ELSE LET mid == (lo + hi) \div 2
           half == applyPatterns(pats, lo, mid, level, filtered)
       IN  \* (the test has half evaluated before the second half is entered)
           IF Len(half) >= 0 THEN applyPatterns(pats, mid + 1, hi, level, half) ELSE half

\* FilterText without its test of Enabled and Level
FilterTextUnguarded(config, pats, text) ==
  applyPatterns(pats, 1, Len(pats), config.Level, text)

FilterText(config, pats, text) ==
  IF ~config.Enabled \/ config.Level = FilterLevelNone THEN text
  ELSE applyPatterns(pats, 1, Len(pats), config.Level, text)

\* FilterLines were the filtered lines appended to the slice made with
\* len(lines) elements instead of stored at their index
FilterLinesAppended(config, pats, lines) ==
  IF ~config.Enabled \/ config.Level = FilterLevelNone THEN lines
  ELSE [i \in 1..Len(lines) |-> <<>>]
       \o [i \in 1..Len(lines) |-> FilterText(config, pats, lines[i])]

FilterLines(config, pats, lines) ==
  IF ~config.Enabled \/ config.Level = FilterLevelNone THEN lines
  ELSE [i \in 1..Len(lines) |-> FilterText(config, pats, lines[i])]

\* strings.Split(text, "\n"): the pieces between the newlines, one more
\* than there are newlines
Split(text) ==
  LET nl == {k \in 1..Len(text) : text[k] = "\n"}
      at(j) == IF j = 0 THEN 0
               ELSE IF j > Cardinality(nl) THEN Len(text) + 1
               ELSE CHOOSE p \in nl : Cardinality({q \in nl : q < p}) = j - 1
  IN  [j \in 1..(Cardinality(nl) + 1) |-> SubSeq(text, at(j - 1) + 1, at(j) - 1)]

\* strings.Join(lines, "\n")
RECURSIVE Join(_)
Join(lines) ==
  IF lines = <<>> THEN <<>>
  ELSE IF Len(lines) = 1 THEN lines[1]
  ELSE lines[1] \o <<"\n">> \o Join(Tail(lines))

\* FilterMultilineText were the empty piece after a last newline left out
\* of the lines it joins
FilterMultilineTextTrimmed(config, pats, text) ==
  IF ~config.Enabled \/ config.Level = FilterLevelNone THEN text
  ELSE LET pieces == Split(text)
           kept == IF Len(pieces) > 1 /\ pieces[Len(pieces)] = <<>>
                   THEN SubSeq(pieces, 1, Len(pieces) - 1) ELSE pieces
       IN  Join(FilterLines(config, pats, kept))

FilterMultilineText(config, pats, text) ==
  IF ~config.Enabled \/ config.Level = FilterLevelNone THEN text
  ELSE Join(FilterLines(config, pats, Split(text)))

\* DetectSensitivePatterns were only the patterns of level Basic examined,
\* whatever the level of the filter
DetectSensitivePatternsBasic(config, pats, text) ==
  IF ~config.Enabled \/ config.Level = FilterLevelNone THEN <<>>
  ELSE LET hit == SelectSeq(pats, LAMBDA p :
                    p.Level <= FilterLevelBasic /\ MatchString(Compile(p.Pattern).prog, text))
       IN  [k \in 1..Len(hit) |-> hit[k].Name]

\* DetectSensitivePatterns were the search left at the first pattern that
\* matches
DetectSensitivePatternsFirst(config, pats, text) ==
  IF ~config.Enabled \/ config.Level = FilterLevelNone THEN <<>>
  ELSE LET hit == SelectSeq(pats, LAMBDA p :
                    p.Level <= config.Level /\ MatchString(Compile(p.Pattern).prog, text))
       IN  IF hit = <<>> THEN <<>> ELSE <<hit[1].Name>>

DetectSensitivePatterns(config, pats, text) ==
  IF ~config.Enabled \/ config.Level = FilterLevelNone THEN <<>>
  ELSE LET hit == SelectSeq(pats, LAMBDA p :
                    p.Level <= config.Level /\ MatchString(Compile(p.Pattern).prog, text))
       IN  [k \in 1..Len(hit) |-> hit[k].Name]

(***************************************************************************)
(* The inputs the model draws.                                             *)
(***************************************************************************)
\* a text is at most MaxFrags of these pieces, one after another
MaxFrags == 2
\* FilterLines is given at most MaxLines lines
MaxLines == 2

fragEcho == <<"e", "c", "h", "o", " ", "$", "K", "E", "Y">>
fragPrivateIP == <<"1", "0", ".", "0", ".", "0", ".", "1">>
fragSSN == <<"1", "2", "3", "-", "4", "5", "-", "6", "7", "8", "9">>
fragCustom == <<"m", "y", "_", "s", "e", "c", "r", "e", "t", "_", "1">>
fragPlain == <<"l", "s">>
Frags == {fragEcho, fragPrivateIP, fragSSN, fragCustom, fragPlain, <<"\n">>}

RECURSIVE TextsOf(_)
TextsOf(n) ==
  IF n = 0 THEN {<<>>}
  ELSE LET shorter == TextsOf(n - 1)
       IN  shorter \cup {t \o f : t \in shorter, f \in Frags}
Texts == TextsOf(MaxFrags)

\* the texts of the scenarios of the tests, drawn besides Texts
\* the command of the README test "OpenAI API key in export"
textExportOpenAI ==
  <<"e", "x", "p", "o", "r", "t", " ", "O", "P", "E", "N", "A", "I", "_",
  "A", "P", "I", "_", "K", "E", "Y", "=", "s", "k", "-", "a", "b", "c", "d",
  "e", "f", "g", "h", "i", "j", "k", "l", "m", "n", "o", "p", "q", "r", "s",
  "t", "u", "v", "w", "x", "y", "z", "A", "B", "C", "D", "E", "F", "G", "H",
  "I", "J", "K", "L", "M", "N", "O", "P", "q", "r", "s", "t">>

\* an assignment to a name holding TOKEN, the value of 8 characters
textTokenAssign ==
  <<"M", "Y", "_", "T", "O", "K", "E", "N", "=", "a", "b", "c", "d", "e",
  "f", "g", "h">>

\* an assignment to a name holding KEY and then a digit
textKeyDigit ==
  <<"M", "Y", "_", "K", "E", "Y", "1", "=", "a", "b", "c", "d", "e", "f",
  "g", "h">>

\* an assignment of a quoted value with spaces
textQuotedPassword ==
  <<"P", "A", "S", "S", "W", "O", "R", "D", "=", "\"", "m", "y", " ", "p",
  "a", "s", "s", " ", "w", "o", "r", "d", "\"">>

\* the plain commands and texts of the README tests
textLsHome ==
  <<"l", "s", " ", "-", "l", "a", " ", "/", "h", "o", "m", "e", "/", "u",
  "s", "e", "r">>

textEchoHello ==
  <<"e", "c", "h", "o", " ", "'", "H", "e", "l", "l", "o", " ", "W", "o",
  "r", "l", "d", "'">>

textHelloWorld ==
  <<"H", "e", "l", "l", "o", " ", "W", "o", "r", "l", "d">>

textBareEmail ==
  <<"u", "s", "e", "r", "@", "e", "x", "a", "m", "p", "l", "e", ".", "c",
  "o", "m">>

\* an assignment to the name token of a command that reads a variable
textTokenEcho ==
  <<"t", "o", "k", "e", "n", "=", "e", "c", "h", "o", " ", "$", "K", "E",
  "Y">>

ScenarioTexts ==
  {textExportOpenAI, textTokenAssign, textKeyDigit, textQuotedPassword,
   textLsHome, textEchoHello, textHelloWorld, textBareEmail, textTokenEcho}

RECURSIVE LinesOf(_)
LinesOf(n) ==
  IF n = 0 THEN {<<>>}
  ELSE LET shorter == LinesOf(n - 1)
       IN  shorter \cup {Append(ls, f) : ls \in shorter, f \in Frags}
LineLists == LinesOf(MaxLines)

\* replacement texts: none (the default applies), and two that
\* Regexp.ReplaceAllString reads as templates: the whole match, and the name
\* of a group no pattern has
DollarZero == <<"$", "0">>
DollarName == <<"$", "x">>
ReplacementTexts == {<<>>, DollarZero, DollarName}
\* custom pattern lists: none; one that does not compile before the one of
\* TestCustomPatterns; one that also matches the empty string
CustomPatternLists == {<<>>, <<"[", "my_secret_\\w+">>, <<"x*">>}

Configs ==
  [Level : FilterLevels, Enabled : BOOLEAN, CustomPatterns : CustomPatternLists,
   ReplacementText : ReplacementTexts]

(***************************************************************************)
(* The state: one Filter (the FilterConfig it points to and its compiled   *)
(* patterns) and the last call made on it.                                 *)
(***************************************************************************)
VARIABLES config, patterns, op, text, lines, result, resultLines, detected

filterVars == <<config, patterns, op, text, lines, result, resultLines, detected>>

\* the lock file and the manager processes (spec.md 4.3)
VARIABLES lockFile, pc, outcome, foundStale, sawOwn, shell

lockVars == <<lockFile, pc, outcome, foundStale, sawOwn, shell>>

\* the segments of the session log (spec.md 4.2)
VARIABLES segments, now, writable, lastOp, deleteFailures

logVars == <<segments, now, writable, lastOp, deleteFailures>>

\* one recording session: the shell on the pty, the copy loop and the
\* exit/signal observer of the manager, and what became of the shell's output
\* (spec.md 4.3 and 5)
VARIABLES session, shellRunning, stopRequested, produced, ptyBuffered,
          copyLoop, exitWatcher, appendInFlight, logged, dropped, forwarded,
          segmentSealed, fsWritable

sessionVars ==
  <<session, shellRunning, stopRequested, produced, ptyBuffered, copyLoop,
    exitWatcher, appendInFlight, logged, dropped, forwarded, segmentSealed,
    fsWritable>>

\* the Config a process holds, the configuration file at the path it uses,
\* and the last call made on the config package with its argument and what
\* it returned
VARIABLES conf, cfgFile, call, arg, ret

configVars == <<conf, cfgFile, call, arg, ret>>

\* NewFilter(nil)
FilterInit ==
  /\ config = DefaultFilterConfig
  /\ patterns = compilePatterns(DefaultFilterConfig)
  /\ op = "Idle"
  /\ text = <<>> /\ lines = <<>> /\ result = <<>> /\ resultLines = <<>>
  /\ detected = <<>>

NewFilter(cfg) ==
  /\ op = "Idle"
  /\ config' = cfg
  /\ patterns' = compilePatterns(cfg)
  /\ op' = "Idle"
  /\ text' = <<>> /\ lines' = <<>> /\ result' = <<>> /\ resultLines' = <<>>
  /\ detected' = <<>>
  /\ UNCHANGED <<lockVars, logVars, sessionVars, configVars>>

CallFilterText(t) ==
  /\ op = "Idle"
  /\ op' = "FilterText"
  /\ text' = t
  /\ result' = FilterText(config, patterns, t)
  /\ lines' = <<>> /\ resultLines' = <<>> /\ detected' = <<>>
  /\ UNCHANGED <<config, patterns>>
  /\ UNCHANGED <<lockVars, logVars, sessionVars, configVars>>

CallFilterLines(ls) ==
  /\ op = "Idle"
  /\ op' = "FilterLines"
  /\ lines' = ls
  /\ resultLines' = FilterLines(config, patterns, ls)
  /\ text' = <<>> /\ result' = <<>> /\ detected' = <<>>
  /\ UNCHANGED <<config, patterns>>
  /\ UNCHANGED <<lockVars, logVars, sessionVars, configVars>>

CallFilterMultilineText(t) ==
  /\ op = "Idle"
  /\ op' = "FilterMultilineText"
  /\ text' = t
  /\ result' = FilterMultilineText(config, patterns, t)
  /\ lines' = <<>> /\ resultLines' = <<>> /\ detected' = <<>>
  /\ UNCHANGED <<config, patterns>>
  /\ UNCHANGED <<lockVars, logVars, sessionVars, configVars>>

CallDetectSensitivePatterns(t) ==
  /\ op = "Idle"
  /\ op' = "DetectSensitivePatterns"
  /\ text' = t
  /\ detected' = DetectSensitivePatterns(config, patterns, t)
  /\ lines' = <<>> /\ resultLines' = <<>> /\ result' = <<>>
  /\ UNCHANGED <<config, patterns>>
  /\ UNCHANGED <<lockVars, logVars, sessionVars, configVars>>

\* the caller of NewFilter assigns the field Enabled of the FilterConfig it
\* passed in, which is the one f.config points to; the compiled patterns stay
SetEnabled(b) ==
  /\ op = "Idle"
  /\ op' = "SetEnabled"
  /\ config' = [config EXCEPT !.Enabled = b]
  /\ UNCHANGED <<patterns, text, lines, result, resultLines, detected>>
  /\ UNCHANGED <<lockVars, logVars, sessionVars, configVars>>

\* the caller takes the returned value; the filter keeps nothing of the call
Return ==
  /\ op # "Idle"
  /\ op' = "Idle"
  /\ text' = <<>> /\ lines' = <<>> /\ result' = <<>> /\ resultLines' = <<>>
  /\ detected' = <<>>
  /\ UNCHANGED <<config, patterns>>
  /\ UNCHANGED <<lockVars, logVars, sessionVars, configVars>>

FilterNext ==
  \/ \E cfg \in Configs : NewFilter(cfg)
  \/ \E t \in Texts : CallFilterText(t)
  \/ \E t \in ScenarioTexts : CallFilterText(t)
  \/ \E ls \in LineLists : CallFilterLines(ls)
  \/ \E t \in Texts : CallFilterMultilineText(t)
  \/ \E t \in Texts : CallDetectSensitivePatterns(t)
  \/ \E b \in BOOLEAN : SetEnabled(b)
  \/ Return

(***************************************************************************)
(* Proxy Session Manager (spec.md 4.3): the start requests of NumProcs     *)
(* manager processes against one lock scope.  The lock file holds the      *)
(* process id of its owner; a step is one file-system operation.           *)
(***************************************************************************)
NumProcs == 3

Procs == 1..NumProcs

\* the content of the lock file when there is no lock file
NoFile == 0

\* the state of the spec's machine a process is in
SessionState(p) ==
  CASE pc[p] \in {"Idle", "Crashed"} -> "Idle"
    [] pc[p] \in {"CreateLock", "CheckLock", "RemoveStale", "Spawn"} -> "Starting"
    [] pc[p] = "Recording" -> "Recording"
    [] OTHER -> "Terminating"

\* the liveness check: the process named q exists
alive(q) == q \in Procs /\ pc[q] \notin {"Idle", "Crashed"}

LockInit ==
  /\ lockFile = NoFile
  /\ pc = [p \in Procs |-> "Idle"]
  /\ outcome = [p \in Procs |-> "none"]
  /\ foundStale = [p \in Procs |-> FALSE]
  /\ sawOwn = [p \in Procs |-> FALSE]
  /\ shell = [p \in Procs |-> FALSE]

\* Idle -> Starting: an external start request
StartRequest(p) ==
  /\ pc[p] = "Idle"
  /\ pc' = [pc EXCEPT ![p] = "CreateLock"]
  /\ outcome' = [outcome EXCEPT ![p] = "none"]
  /\ foundStale' = [foundStale EXCEPT ![p] = FALSE]
  /\ UNCHANGED <<lockFile, sawOwn, shell>>
  /\ UNCHANGED <<filterVars, logVars, sessionVars, configVars>>

\* the atomic create-if-absent of the lock file, holding the creator's id
CreateLock(p) ==
  /\ pc[p] = "CreateLock"
  /\ IF lockFile = NoFile
       THEN lockFile' = p /\ pc' = [pc EXCEPT ![p] = "Spawn"]
       ELSE lockFile' = lockFile /\ pc' = [pc EXCEPT ![p] = "CheckLock"]
  /\ UNCHANGED <<outcome, foundStale, sawOwn, shell>>
  /\ UNCHANGED <<filterVars, logVars, sessionVars, configVars>>

\* a check that takes a live lock over instead of refusing
CheckLockTakeOver(p) ==
  /\ pc[p] = "CheckLock"
  /\ lockFile' = IF lockFile # NoFile /\ alive(lockFile) THEN p ELSE lockFile
  /\ pc' = [pc EXCEPT ![p] = IF lockFile = NoFile THEN "CreateLock"
                               ELSE IF alive(lockFile) THEN "Spawn" ELSE "RemoveStale"]
  /\ foundStale' = [foundStale EXCEPT ![p] = @ \/ (lockFile # NoFile /\ ~alive(lockFile))]
  /\ UNCHANGED <<outcome, sawOwn, shell>>
  /\ UNCHANGED <<filterVars, logVars, sessionVars, configVars>>

\* the lock exists: read the recorded process id and check that it is alive
CheckLock(p) ==
  /\ pc[p] = "CheckLock"
  /\ CASE lockFile = NoFile ->
            /\ pc' = [pc EXCEPT ![p] = "CreateLock"]
            /\ UNCHANGED <<outcome, foundStale>>
       [] lockFile # NoFile /\ alive(lockFile) ->
            /\ pc' = [pc EXCEPT ![p] = "Idle"]
            /\ outcome' = [outcome EXCEPT ![p] = "already active"]
            /\ UNCHANGED foundStale
       [] OTHER ->
            /\ pc' = [pc EXCEPT ![p] = "RemoveStale"]
            /\ foundStale' = [foundStale EXCEPT ![p] = TRUE]
            /\ UNCHANGED outcome
  /\ UNCHANGED <<lockFile, sawOwn, shell>>
  /\ UNCHANGED <<filterVars, logVars, sessionVars, configVars>>

\* the stale lock is reclaimed: the file is removed and the create retried
RemoveStale(p) ==
  /\ pc[p] = "RemoveStale"
  /\ lockFile' = NoFile
  /\ pc' = [pc EXCEPT ![p] = "CreateLock"]
  /\ UNCHANGED <<outcome, foundStale, sawOwn, shell>>
  /\ UNCHANGED <<filterVars, logVars, sessionVars, configVars>>

\* Starting -> Recording: the pty is allocated and the shell spawned; a
\* failure is fatal to the start attempt, which releases the lock and exits
Spawn(p) ==
  /\ pc[p] = "Spawn"
  /\ \E ok \in BOOLEAN :
       IF ok
         THEN /\ pc' = [pc EXCEPT ![p] = "Recording"]
              /\ outcome' = [outcome EXCEPT ![p] = "recording"]
              /\ shell' = [shell EXCEPT ![p] = TRUE]
         ELSE /\ pc' = [pc EXCEPT ![p] = "ReadLock"]
              /\ outcome' = [outcome EXCEPT ![p] = "spawn failed"]
              /\ shell' = shell
  /\ UNCHANGED <<lockFile, foundStale, sawOwn>>
  /\ UNCHANGED <<filterVars, logVars, sessionVars, configVars>>

\* Recording -> Terminating: the shell exits, or a stop signal is received
EndRecording(p) ==
  /\ pc[p] = "Recording"
  /\ pc' = [pc EXCEPT ![p] = "ReadLock"]
  /\ shell' = [shell EXCEPT ![p] = FALSE]
  /\ UNCHANGED <<lockFile, outcome, foundStale, sawOwn>>
  /\ UNCHANGED <<filterVars, logVars, sessionVars, configVars>>

\* the manager is killed without running its termination: the lock stays
Crash(p) ==
  /\ pc[p] = "Recording"
  /\ pc' = [pc EXCEPT ![p] = "Crashed"]
  /\ shell' = [shell EXCEPT ![p] = FALSE]
  /\ UNCHANGED <<lockFile, outcome, foundStale, sawOwn>>
  /\ UNCHANGED <<filterVars, logVars, sessionVars, configVars>>

\* Terminating: read the lock file, to see whether it still names this process
ReadLock(p) ==
  /\ pc[p] = "ReadLock"
  /\ sawOwn' = [sawOwn EXCEPT ![p] = (lockFile = p)]
  /\ pc' = [pc EXCEPT ![p] = "RemoveLock"]
  /\ UNCHANGED <<lockFile, outcome, foundStale, shell>>
  /\ UNCHANGED <<filterVars, logVars, sessionVars, configVars>>

\* Terminating -> Idle: remove the lock file if it named this process, exit
RemoveLock(p) ==
  /\ pc[p] = "RemoveLock"
  /\ lockFile' = IF sawOwn[p] THEN NoFile ELSE lockFile
  /\ sawOwn' = [sawOwn EXCEPT ![p] = FALSE]
  /\ pc' = [pc EXCEPT ![p] = "Idle"]
  /\ UNCHANGED <<outcome, foundStale, shell>>
  /\ UNCHANGED <<filterVars, logVars, sessionVars, configVars>>

LockNext ==
  \E p \in Procs :
    \/ StartRequest(p)
    \/ CreateLock(p)
    \/ CheckLock(p)
    \/ RemoveStale(p)
    \/ Spawn(p)
    \/ EndRecording(p)
    \/ Crash(p)
    \/ ReadLock(p)
    \/ RemoveLock(p)

(***************************************************************************)
(* Log Rotator (spec.md 4.2): the segments of one session, oldest first,   *)
(* the last of them the current one.  Sizes are byte counts before         *)
(* compression; createdAt and now are clock readings.                      *)
(***************************************************************************)
maxSegmentSize == 2

maxSegments == 2

maxAge == 1

MaxChunk == 3

MaxTime == 2

MaxSeq == 4

Segment(seq, at) ==
  [sequenceNumber |-> seq, sizeBytes |-> 0, createdAt |-> at,
   sealed |-> FALSE, compressed |-> FALSE]

Current == segments[Len(segments)]

LogInit ==
  /\ segments = <<Segment(1, 0)>>
  /\ now = 0
  /\ writable = TRUE
  /\ lastOp = "open"
  /\ deleteFailures = {}

\* the sequence numbers of the sealed segments of segs
SealedSeqs(segs) ==
  {segs[k].sequenceNumber : k \in {j \in DOMAIN segs : segs[j].sealed}}

\* the segments of segs the sweep at time t is to delete: the oldest sealed
\* ones beyond maxSegments, and the sealed ones older than maxAge
Doomed(segs, t) ==
  LET excess == Len(segs) - maxSegments
  IN  {segs[k].sequenceNumber : k \in {j \in DOMAIN segs :
         segs[j].sealed /\ (j <= excess \/ t - segs[j].createdAt > maxAge)}}

\* a sweep that gives up at its first failed deletion
RetentionSweepAborting(segs, t, failing) ==
  LET doomed == Doomed(segs, t)
      stop == {k \in DOMAIN segs : segs[k].sequenceNumber \in doomed \cap failing}
      gone == {segs[k].sequenceNumber : k \in {j \in DOMAIN segs :
                 segs[j].sequenceNumber \in doomed /\ \A i \in stop : j < i}}
  IN  SelectSeq(segs, LAMBDA s : s.sequenceNumber \notin gone)

\* the retention sweep: each doomed segment is deleted, oldest first; a
\* deletion that fails (the segments in failing) is logged and the sweep
\* goes on
RetentionSweep(segs, t, failing) ==
  LET gone == Doomed(segs, t) \ failing
  IN  SelectSeq(segs, LAMBDA s : s.sequenceNumber \notin gone)

\* seal-on-threshold: the current segment is finalized and a new one opened
\* with the next sequence number
Rotate(segs, t) ==
  LET n == Len(segs)
  IN  [segs EXCEPT ![n].sealed = TRUE] \o <<Segment(segs[n].sequenceNumber + 1, t)>>

AppendBytes(segs, size) == [segs EXCEPT ![Len(segs)].sizeBytes = @ + size]

\* Write were the segment sealed, and a new one opened, as soon as the bytes
\* written fill it
WriteSealWhenFull(size) ==
  /\ IF ~writable
       THEN /\ lastOp' = "drop"
            /\ UNCHANGED <<segments, deleteFailures>>
       ELSE IF Current.sizeBytes + size >= maxSegmentSize
         THEN /\ Current.sequenceNumber < MaxSeq
              /\ \E failing \in SUBSET SealedSeqs(Rotate(AppendBytes(segments, size), now)) :
                   /\ segments' = RetentionSweep(Rotate(AppendBytes(segments, size), now), now, failing)
                   /\ deleteFailures' = Doomed(Rotate(AppendBytes(segments, size), now), now) \cap failing
              /\ lastOp' = "rotate"
         ELSE /\ segments' = AppendBytes(segments, size)
              /\ lastOp' = "append"
              /\ UNCHANGED deleteFailures
  /\ UNCHANGED <<now, writable>>
  /\ UNCHANGED <<filterVars, lockVars, sessionVars, configVars>>

\* Write(bytes), the chunk given by its size
Write(size) ==
  /\ IF ~writable
       THEN \* the filesystem is unwritable: the bytes are dropped
            /\ lastOp' = "drop"
            /\ UNCHANGED <<segments, deleteFailures>>
       ELSE IF Current.sizeBytes + size > maxSegmentSize
         THEN \* appending would exceed maxSegmentSize: seal, open, sweep, write
              /\ Current.sequenceNumber < MaxSeq
              /\ \E failing \in SUBSET SealedSeqs(Rotate(segments, now)) :
                   /\ segments' = AppendBytes(RetentionSweep(Rotate(segments, now), now, failing), size)
                   /\ deleteFailures' = Doomed(Rotate(segments, now), now) \cap failing
              /\ lastOp' = "rotate"
         ELSE /\ segments' = AppendBytes(segments, size)
              /\ lastOp' = "append"
              /\ UNCHANGED deleteFailures
  /\ UNCHANGED <<now, writable>>
  /\ UNCHANGED <<filterVars, lockVars, sessionVars, configVars>>

\* the asynchronous compression of a sealed segment, in place
Compress(k) ==
  /\ segments[k].sealed /\ ~segments[k].compressed
  /\ segments' = [segments EXCEPT ![k].compressed = TRUE]
  /\ lastOp' = "compress"
  /\ UNCHANGED <<now, writable, deleteFailures>>
  /\ UNCHANGED <<filterVars, lockVars, sessionVars, configVars>>

\* time passes
Tick ==
  /\ now < MaxTime
  /\ now' = now + 1
  /\ lastOp' = "tick"
  /\ UNCHANGED <<segments, writable, deleteFailures>>
  /\ UNCHANGED <<filterVars, lockVars, sessionVars, configVars>>

\* the filesystem becomes unwritable, or writable again
SetWritable(w) ==
  /\ writable # w
  /\ writable' = w
  /\ lastOp' = "fs"
  /\ UNCHANGED <<segments, now, deleteFailures>>
  /\ UNCHANGED <<filterVars, lockVars, sessionVars, configVars>>

LogNext ==
  \/ \E size \in 1..MaxChunk : Write(size)
  \/ \E k \in DOMAIN segments : Compress(k)
  \/ Tick
  \/ \E w \in BOOLEAN : SetWritable(w)

(***************************************************************************)
(* The specifications: each one runs one component, the others at rest.    *)
(***************************************************************************)
(***************************************************************************)
(* The recording session of the Proxy Session Manager (spec.md 4.3, 5):    *)
(* the shell writes to the pty; the copy loop reads the pty, forwards each *)
(* chunk to the terminal and appends it to the log; the exit/signal        *)
(* observer waits for the shell to exit or for a stop signal; termination  *)
(* seals the segment when both activities have completed.                  *)
(***************************************************************************)
\* the number of chunks a shell writes in one session
MaxOutput == 3

SessionInit ==
  /\ session = "Idle"
  /\ shellRunning = FALSE /\ stopRequested = FALSE
  /\ produced = 0 /\ ptyBuffered = 0
  /\ copyLoop = "off" /\ exitWatcher = "off"
  /\ appendInFlight = FALSE
  /\ logged = 0 /\ dropped = 0 /\ forwarded = 0
  /\ segmentSealed = FALSE
  /\ fsWritable = TRUE

\* Starting -> Recording: the shell is spawned on the pty, a fresh segment
\* is current, and the two activities start
StartRecording ==
  /\ session = "Idle"
  /\ session' = "Recording"
  /\ shellRunning' = TRUE /\ stopRequested' = FALSE
  /\ produced' = 0 /\ ptyBuffered' = 0
  /\ copyLoop' = "read" /\ exitWatcher' = "wait"
  /\ appendInFlight' = FALSE
  /\ logged' = 0 /\ dropped' = 0 /\ forwarded' = 0
  /\ segmentSealed' = FALSE
  /\ UNCHANGED fsWritable
  /\ UNCHANGED <<filterVars, lockVars, logVars, configVars>>

\* the shell writes a chunk of output to its side of the pty
ShellOutput ==
  /\ shellRunning /\ produced < MaxOutput
  /\ produced' = produced + 1
  /\ ptyBuffered' = ptyBuffered + 1
  /\ UNCHANGED <<session, shellRunning, stopRequested, copyLoop, exitWatcher,
                 appendInFlight, logged, dropped, forwarded, segmentSealed,
                 fsWritable>>
  /\ UNCHANGED <<filterVars, lockVars, logVars, configVars>>

\* the shell exits; what it wrote stays readable on the pty until EOF
ShellExit ==
  /\ shellRunning
  /\ shellRunning' = FALSE
  /\ UNCHANGED <<session, stopRequested, produced, ptyBuffered, copyLoop,
                 exitWatcher, appendInFlight, logged, dropped, forwarded,
                 segmentSealed, fsWritable>>
  /\ UNCHANGED <<filterVars, lockVars, logVars, configVars>>

\* an external stop signal is sent to the manager
StopSignal ==
  /\ session = "Recording" /\ ~stopRequested
  /\ stopRequested' = TRUE
  /\ UNCHANGED <<session, shellRunning, produced, ptyBuffered, copyLoop,
                 exitWatcher, appendInFlight, logged, dropped, forwarded,
                 segmentSealed, fsWritable>>
  /\ UNCHANGED <<filterVars, lockVars, logVars, configVars>>

\* Recording -> Terminating: the observer sees the exit of the shell or the
\* stop signal (after which the shell is hung up, so that the pty reaches EOF)
ObserveExit ==
  /\ exitWatcher = "wait"
  /\ ~shellRunning \/ stopRequested
  /\ exitWatcher' = "done"
  /\ session' = "Terminating"
  /\ shellRunning' = FALSE
  /\ UNCHANGED <<stopRequested, produced, ptyBuffered, copyLoop,
                 appendInFlight, logged, dropped, forwarded, segmentSealed,
                 fsWritable>>
  /\ UNCHANGED <<filterVars, lockVars, logVars, configVars>>

\* the copy loop reads the next chunk from the pty and forwards it to the
\* terminal, or reads EOF and completes
CopyRead ==
  /\ copyLoop = "read"
  /\ IF ptyBuffered > 0
     THEN /\ ptyBuffered' = ptyBuffered - 1
          /\ forwarded' = forwarded + 1
          /\ copyLoop' = "append"
     ELSE /\ ~shellRunning
          /\ copyLoop' = "done"
          /\ UNCHANGED <<ptyBuffered, forwarded>>
  /\ UNCHANGED <<session, shellRunning, stopRequested, produced, exitWatcher,
                 appendInFlight, logged, dropped, segmentSealed, fsWritable>>
  /\ UNCHANGED <<filterVars, lockVars, logVars, configVars>>

\* the copy loop enters the append of the Log Rotator with the chunk
AppendBegin ==
  /\ copyLoop = "append" /\ fsWritable
  /\ appendInFlight' = TRUE
  /\ copyLoop' = "appending"
  /\ UNCHANGED <<session, shellRunning, stopRequested, produced, ptyBuffered,
                 exitWatcher, logged, dropped, forwarded, segmentSealed,
                 fsWritable>>
  /\ UNCHANGED <<filterVars, lockVars, logVars, configVars>>

\* the append completes: the chunk is in the current segment
AppendEnd ==
  /\ copyLoop = "appending" /\ fsWritable
  /\ appendInFlight' = FALSE
  /\ logged' = logged + 1
  /\ copyLoop' = "read"
  /\ UNCHANGED <<session, shellRunning, stopRequested, produced, ptyBuffered,
                 exitWatcher, dropped, forwarded, segmentSealed, fsWritable>>
  /\ UNCHANGED <<filterVars, lockVars, logVars, configVars>>

\* AppendFail were the failure of a write the end of the session
AppendFailTerminates ==
  /\ copyLoop \in {"append", "appending"} /\ ~fsWritable
  /\ appendInFlight' = FALSE
  /\ dropped' = dropped + 1
  /\ copyLoop' = "done"
  /\ session' = "Terminating"
  /\ shellRunning' = FALSE
  /\ exitWatcher' = "done"
  /\ UNCHANGED <<stopRequested, produced, ptyBuffered, logged, forwarded,
                 segmentSealed, fsWritable>>
  /\ UNCHANGED <<filterVars, lockVars, logVars, configVars>>

\* a write/rotation failure: the file system is unwritable, the chunk is
\* dropped, and the copy loop goes on with the next one
AppendFail ==
  /\ copyLoop \in {"append", "appending"} /\ ~fsWritable
  /\ appendInFlight' = FALSE
  /\ dropped' = dropped + 1
  /\ copyLoop' = "read"
  /\ UNCHANGED <<session, shellRunning, stopRequested, produced, ptyBuffered,
                 exitWatcher, logged, forwarded, segmentSealed, fsWritable>>
  /\ UNCHANGED <<filterVars, lockVars, logVars, configVars>>

\* SealAndExit were the segment sealed without waiting for the copy loop
SealWithoutWaiting ==
  /\ session = "Terminating"
  /\ exitWatcher = "done"
  /\ segmentSealed' = TRUE
  /\ session' = "Idle"
  /\ exitWatcher' = "off"
  /\ UNCHANGED <<shellRunning, stopRequested, produced, ptyBuffered, copyLoop,
                 appendInFlight, logged, dropped, forwarded, fsWritable>>
  /\ UNCHANGED <<filterVars, lockVars, logVars, configVars>>

\* Terminating -> Idle: both activities have completed; the current segment
\* is flushed and sealed and the manager exits
SealAndExit ==
  /\ session = "Terminating"
  /\ exitWatcher = "done" /\ copyLoop = "done"
  /\ segmentSealed' = TRUE
  /\ session' = "Idle"
  /\ copyLoop' = "off" /\ exitWatcher' = "off"
  /\ UNCHANGED <<shellRunning, stopRequested, produced, ptyBuffered,
                 appendInFlight, logged, dropped, forwarded, fsWritable>>
  /\ UNCHANGED <<filterVars, lockVars, logVars, configVars>>

\* the file system of the log becomes unwritable, or writable again
SetFsWritable(w) ==
  /\ session \in {"Recording", "Terminating"}
  /\ fsWritable # w
  /\ fsWritable' = w
  /\ UNCHANGED <<session, shellRunning, stopRequested, produced, ptyBuffered,
                 copyLoop, exitWatcher, appendInFlight, logged, dropped,
                 forwarded, segmentSealed>>
  /\ UNCHANGED <<filterVars, lockVars, logVars, configVars>>

SessionNext ==
  \/ StartRecording
  \/ ShellOutput
  \/ ShellExit
  \/ StopSignal
  \/ ObserveExit
  \/ CopyRead
  \/ AppendBegin
  \/ AppendEnd
  \/ AppendFail
  \/ SealAndExit
  \/ \E w \in BOOLEAN : SetFsWritable(w)

(***************************************************************************)
(* Configuration (pkg/config): the Config of the providers, its file, and  *)
(* its validation.  A Go string is the tuple of its bytes, a byte written  *)
(* as the character it stands for; "<FF>" is one byte that is not part of  *)
(* any UTF-8 encoding and "<FFFD>" the three bytes of U+FFFD.              *)
(***************************************************************************)
\* the nil pointer, the nil error and the nil slice
Nil == [nil |-> TRUE]

\* an error value: fmt.Errorf, errors.New; Error() returns its text
Errorf(message) == [Error |-> message]

\* the provider names of the switch statements
openai == <<"o", "p", "e", "n", "a", "i">>
openai_compatible == <<"o", "p", "e", "n", "a", "i", "_", "c", "o", "m",
                       "p", "a", "t", "i", "b", "l", "e">>
azure_openai == <<"a", "z", "u", "r", "e", "_", "o", "p", "e", "n", "a", "i">>
anthropic == <<"a", "n", "t", "h", "r", "o", "p", "i", "c">>
gemini == <<"g", "e", "m", "i", "n", "i">>
deepseek == <<"d", "e", "e", "p", "s", "e", "e", "k">>

\* the zero values of the structs
ProviderConfig == [APIKey |-> <<>>, BaseURL |-> <<>>, Model |-> <<>>, APIVersion |-> <<>>]

AzureOpenAIConfig ==
  [APIKey |-> <<>>, BaseURL |-> <<>>, Model |-> <<>>, APIVersion |-> <<>>,
   ResourceName |-> <<>>, DeploymentName |-> <<>>]

Config ==
  [OpenAI |-> Nil, OpenAICompatible |-> Nil, AzureOpenAI |-> Nil, Anthropic |-> Nil,
   Gemini |-> Nil, DeepSeek |-> Nil, DefaultProvider |-> <<>>]

DefaultConfig ==
  [DefaultProvider |-> openai,
   OpenAI |-> [ProviderConfig EXCEPT
                 !.BaseURL = <<"h", "t", "t", "p", "s", ":", "/", "/", "a",
                               "p", "i", ".", "o", "p", "e", "n", "a", "i",
                               ".", "c", "o", "m">>,
                 !.Model = <<"g", "p", "t", "-", "4", "o", "-", "m", "i",
                             "n", "i">>],
   OpenAICompatible |-> [ProviderConfig EXCEPT
                 !.BaseURL = <<"h", "t", "t", "p", ":", "/", "/", "l", "o",
                               "c", "a", "l", "h", "o", "s", "t", ":", "1",
                               "1", "4", "3", "4">>,
                 !.Model = <<"l", "l", "a", "m", "a", "3", ".", "2", ":",
                             "l", "a", "t", "e", "s", "t">>],
   AzureOpenAI |-> [AzureOpenAIConfig EXCEPT !.APIVersion = <<"2", "0", "2",
                                                              "4", "-", "1",
                                                              "0", "-", "2",
                                                              "1">>],
   Anthropic |-> [ProviderConfig EXCEPT
                 !.BaseURL = <<"h", "t", "t", "p", "s", ":", "/", "/", "a",
                               "p", "i", ".", "a", "n", "t", "h", "r", "o",
                               "p", "i", "c", ".", "c", "o", "m">>,
                 !.Model = <<"c", "l", "a", "u", "d", "e", "-", "3", "-",
                             "5", "-", "s", "o", "n", "n", "e", "t", "-",
                             "2", "0", "2", "4", "1", "0", "2", "2">>],
   Gemini |-> [ProviderConfig EXCEPT
                 !.BaseURL = <<"h", "t", "t", "p", "s", ":", "/", "/", "g",
                               "e", "n", "e", "r", "a", "t", "i", "v", "e",
                               "l", "a", "n", "g", "u", "a", "g", "e", ".",
                               "g", "o", "o", "g", "l", "e", "a", "p", "i",
                               "s", ".", "c", "o", "m">>,
                 !.Model = <<"g", "e", "m", "i", "n", "i", "-", "2", ".",
                             "5", "-", "f", "l", "a", "s", "h">>],
   DeepSeek |-> [ProviderConfig EXCEPT
                 !.BaseURL = <<"h", "t", "t", "p", "s", ":", "/", "/", "a",
                               "p", "i", ".", "d", "e", "e", "p", "s", "e",
                               "e", "k", ".", "c", "o", "m">>,
                 !.Model = <<"d", "e", "e", "p", "s", "e", "e", "k", "-",
                             "c", "h", "a", "t">>]]

\* strings.HasPrefix
HasPrefix(s, prefix) ==
  Len(s) >= Len(prefix) /\ SubSeq(s, 1, Len(prefix)) = prefix

\* strings.Index of one byte: the first place of c in s, 0 if there is none
IndexByte(s, c) ==
  IF \E i \in 1..Len(s) : s[i] = c
  THEN CHOOSE i \in 1..Len(s) : s[i] = c /\ \A j \in 1..(i - 1) : s[j] # c
  ELSE 0

\* strings.Split(s, sep) for a separator of one byte
RECURSIVE SplitAt(_, _)
SplitAt(s, sep) ==
  LET i == IndexByte(s, sep)
  IN  IF i = 0 THEN <<s>>
      ELSE <<SubSeq(s, 1, i - 1)>> \o SplitAt(SubSeq(s, i + 1, Len(s)), sep)

\* strings.ToLower of an ASCII string
ToLowerString(s) == [i \in 1..Len(s) |-> ToLower(s[i])]

\* contains (config.go 603): whether item is an element of slice
contains(slice, item) == \E i \in 1..Len(slice) : slice[i] = item

\* isValidProvider
validProviders == <<openai, openai_compatible, azure_openai, anthropic, gemini, deepseek>>

isValidProvider(provider) == contains(validProviders, provider)

isValidAzureAPIVersion(version) ==
  IF Len(version) # 10 THEN FALSE
  ELSE LET parts == SplitAt(version, "-")
       IN  IF Len(parts) # 3 THEN FALSE
           ELSE Len(parts[1]) = 4 /\ Len(parts[2]) = 2 /\ Len(parts[3]) = 2

(***************************************************************************)
(* The inputs of the configuration model.                                  *)
(***************************************************************************)
\* a Config with every provider set up: the defaults, a key for every
\* provider, and the resource and deployment of Azure
Configured ==
  [DefaultConfig EXCEPT
     !.OpenAI.APIKey = <<"s", "k", "-", "1">>,
     !.OpenAICompatible.APIKey = <<"k", "2">>,
     !.AzureOpenAI.APIKey = <<"k", "3">>,
     !.AzureOpenAI.ResourceName = <<"r", "e", "s">>,
     !.AzureOpenAI.DeploymentName = <<"g", "p", "t", "4">>,
     !.Anthropic.APIKey = <<"k", "4">>,
     !.Gemini.APIKey = <<"k", "5">>,
     !.DeepSeek.APIKey = <<"k", "6">>]

\* base URLs: those of the tests of the package, and some that are no
\* http URL with a host
BaseURLs ==
  {<<"h", "t", "t", "p", "s", ":", "/", "/", "o", "p", "e", "n", ".", "b",
     "i", "g", "m", "o", "d", "e", "l", ".", "c", "n", "/", "a", "p", "i",
     "/", "p", "a", "a", "s", "/", "v", "4", "/">>,
   <<"h", "t", "t", "p", "s", ":", "/", "/", "o", "p", "e", "n", ".", "b",
     "i", "g", "m", "o", "d", "e", "l", ".", "c", "n", "/", "a", "p", "i",
     "/", "p", "a", "a", "s", "/", "v", "4">>,
   <<"h", "t", "t", "p", "s", ":", "/", "/", "a", "p", "i", ".", "e", "x",
     "a", "m", "p", "l", "e", ".", "c", "o", "m", "/", "v", "1">>,
   <<"h", "t", "t", "p", "s", ":", "/", "/", "a", "p", "i", ".", "e", "x",
     "a", "m", "p", "l", "e", ".", "c", "o", "m", "/", "v", "1", "0">>,
   <<"h", "t", "t", "p", "s", ":", "/", "/", "o", "p", "e", "n", ".", "b",
     "i", "g", "m", "o", "d", "e", "l", ".", "c", "n", "/", "a", "p", "i",
     "/", "p", "a", "a", "s", "/", "v", "4", "/", "c", "h", "a", "t", "/",
     "c", "o", "m", "p", "l", "e", "t", "i", "o", "n", "s">>,
   <<"h", "t", "t", "p", "s", ":", "/", "/", "a", "p", "i", ".", "e", "x",
     "a", "m", "p", "l", "e", ".", "c", "o", "m", "/", "v", "a", "l", "i",
     "d">>,
   <<"h", "t", "t", "p", "s", ":", "/", "/", "a", "p", "i", ".", "e", "x",
     "a", "m", "p", "l", "e", ".", "c", "o", "m", "/", "v", "e", "r", "s",
     "i", "o", "n">>,
   <<"h", "t", "t", "p", "s", ":", "/", "/", "a", "p", "i", ".", "e", "x",
     "a", "m", "p", "l", "e", ".", "c", "o", "m", "/", "v", "-", "a">>,
   <<"h", "t", "t", "p", "s", ":", "/", "/", "a", "p", "i", ".", "e", "x",
     "a", "m", "p", "l", "e", ".", "c", "o", "m">>,
   <<"H", "T", "T", "P", "S", ":", "/", "/", "u", ":", "p", "@", "a", "p",
     "i", ".", "e", "x", "a", "m", "p", "l", "e", ".", "c", "o", "m", ":",
     "8", "4", "4", "3", "/", "v", "1", "?", "x", "=", "1", "#", "t", "o",
     "p">>,
   <<"f", "t", "p", ":", "/", "/", "a", "p", "i", ".", "e", "x", "a", "m",
     "p", "l", "e", ".", "c", "o", "m", "/", "v", "1">>,
   <<"a", "p", "i", ".", "e", "x", "a", "m", "p", "l", "e", ".", "c", "o",
     "m", "/", "v", "1">>,
   <<"h", "t", "t", "p", ":", "/", "/", "/", "v", "1">>,
   <<":", "/", "/", "a", "p", "i", ".", "e", "x", "a", "m", "p", "l", "e",
     ".", "c", "o", "m">>,
   <<"h", "t", "t", "p", ":", "/", "/", "a", "p", "i", " ", "e", "x", "a",
     "m", "p", "l", "e", ".", "c", "o", "m", "/", "v", "e", "r", "s", "i",
     "o", "n", " ", "p", "r", "e", "f", "i", "x">>,
   <<"h", "t", "t", "p", ":", "/", "/", "a", "p", "i", ".", "e", "x", "a",
     "m", "p", "l", "e", ".", "c", "o", "m", ":", "8", "0", "a", "/">>,
   <<"h", "t", "t", "p", "s", ":", "/", "/", "a", "p", "i", ".", "e", "x",
     "a", "m", "p", "l", "e", ".", "c", "o", "m", "/", "%", "z", "z">>}

\* API versions of Azure
APIVersions ==
  {<<"2", "0", "2", "4", "-", "1", "0", "-", "2", "1">>, <<"2", "0", "2", "4", "-", "0", "2", "-", "1", "5", "-",
                     "p", "r", "e", "v", "i", "e", "w">>, <<"a", "b", "c", "d", "-", "e",
                                             "f", "-", "g", "h">>, <<"2", "0", "2",
                                                             "4", "-", "1",
                                                             "-", "0", "2",
                                                             "1">>,
   <<"2", "0", "2", "4", "1", "0", "2", "1">>, <<"2", "0", "2", "4", "/", "1", "0", "/", "2", "1">>, <<"-", "-", "-", "-", "-", "-", "-", "-",
                                   "-", "-">>}

\* model names
Models == {<<"g", "p", "t", "-", "4">>, <<"g", "p", "t", "-", "5", "-", "n", "e", "w">>, <<"l", "l", "a", "m", "a">>, <<"c", "l", "a", "u", "d",
                                                  "e", "-", "3">>}

\* the configurations the callers of the package hold
ConfigInputs ==
  {Config, DefaultConfig, Configured}
  \cup {[Configured EXCEPT !.OpenAICompatible.BaseURL = u] : u \in BaseURLs}
  \cup {[Configured EXCEPT !.AzureOpenAI.ResourceName = r, !.AzureOpenAI.BaseURL = b] :
          r \in {<<>>, <<"r", "e", "s">>}, b \in {<<>>, <<"h", "t", "t", "p", "s",
                                                ":", "/", "/", "r", "e",
                                                "s", ".", "o", "p", "e",
                                                "n", "a", "i", ".", "a",
                                                "z", "u", "r", "e", ".",
                                                "c", "o", "m">>}}
  \cup {[Configured EXCEPT !.AzureOpenAI.APIVersion = v] : v \in APIVersions \cup {<<>>}}
  \cup {[Configured EXCEPT !.AzureOpenAI.DeploymentName = <<>>]}
  \cup {[Configured EXCEPT !.OpenAI.Model = m] : m \in Models}
  \cup {[Configured EXCEPT !.Anthropic.Model = m] : m \in Models}
  \cup {[Configured EXCEPT !.DefaultProvider = p] : p \in {<<>>, anthropic, <<"b",
                                                                              "o",
                                                                              "g",
                                                                              "u",
                                                                              "s">>}}
  \cup {[Configured EXCEPT !.OpenAI = Nil], [Configured EXCEPT !.AzureOpenAI = Nil],
        [Configured EXCEPT !.Gemini.APIKey = <<>>], [Configured EXCEPT !.AzureOpenAI.APIKey = <<>>],
        [Config EXCEPT !.DeepSeek = [ProviderConfig EXCEPT !.APIKey = <<"k",
                                                                        "6">>]]}

\* the provider names the callers ask for
Providers == {openai, openai_compatible, azure_openai, anthropic, gemini, deepseek,
              <<>>, <<"o", "l", "l", "a", "m", "a">>}

\* the configurations that are saved: with sections and fields missing,
\* with values of the user, with an Azure section of both resource and base
\* URL, and with keys of bytes the encoder escapes or replaces
FileConfigs ==
  {Config, DefaultConfig, Configured,
   [Config EXCEPT !.OpenAI = [ProviderConfig EXCEPT !.APIKey = <<"s", "k",
                                                                 "-", "1">>]],
   [Config EXCEPT !.Anthropic = ProviderConfig],
   [Config EXCEPT !.DefaultProvider = gemini,
                  !.OpenAI = [ProviderConfig EXCEPT !.Model = <<"g", "p",
                                                                "t", "-", "4">>,
                                                     !.BaseURL = <<"h", "t",
                                                                   "t", "p",
                                                                   "s", ":",
                                                                   "/", "/",
                                                                   "p", "r",
                                                                   "o", "x",
                                                                   "y", ".",
                                                                   "e", "x",
                                                                   "a", "m",
                                                                   "p", "l",
                                                                   "e", ".",
                                                                   "c", "o",
                                                                   "m">>,
                                                     !.APIVersion = <<"v",
                                                                      "2">>]],
   [Config EXCEPT !.AzureOpenAI = [AzureOpenAIConfig EXCEPT
                                     !.APIKey = <<"k", "3">>, !.ResourceName = <<"r",
                                                                           "e",
                                                                           "s">>,
                                     !.BaseURL = <<"h", "t", "t", "p", "s",
                                                   ":", "/", "/", "r", "e",
                                                   "s", ".", "o", "p", "e",
                                                   "n", "a", "i", ".", "a",
                                                   "z", "u", "r", "e", ".",
                                                   "c", "o", "m">>,
                                     !.DeploymentName = <<"g", "p", "t", "4">>]],
   [Config EXCEPT !.AzureOpenAI = [AzureOpenAIConfig EXCEPT
                                     !.APIKey = <<"k", "3">>, !.ResourceName = <<"r",
                                                                           "e",
                                                                           "s">>]],
   [Configured EXCEPT !.Gemini.APIKey = <<"a", "\"", "b", "<", "c", ">",
                                          "&", "\\", "d", "\n">>],
   [Configured EXCEPT !.DeepSeek.APIKey = <<"k", "<FF>", "6">>]}

(***************************************************************************)
(* net/url.Parse, as far as validateURL reads its result: the error, the   *)
(* Scheme and the Host.  A host in brackets (IPv6) is not modelled; no     *)
(* input has one.                                                          *)
(***************************************************************************)
\* the value of a singleton set: S is {e}, and x \in {e} names e once
Only(S) == CHOOSE x \in S : TRUE

Letter == Lower \cup Upper

HexDigit == Digit \cup {"a", "b", "c", "d", "e", "f", "A", "B", "C", "D", "E", "F"}

\* stringContainsCTLByte: a byte below the space, or 0x7f
CtlByte == {"\t", "\n", "\r"}

\* strconv.Quote, which %q and url.Error print the URL with
RECURSIVE QuoteBytes(_)
QuoteBytes(s) ==
  IF s = <<>> THEN <<>>
  ELSE LET c == Head(s)
           q == CASE c = "\"" -> <<"\\", "\"">>
                  [] c = "\\" -> <<"\\", "\\">>
                  [] c = "\n" -> <<"\\", "n">>
                  [] c = "\t" -> <<"\\", "t">>
                  [] c = "\r" -> <<"\\", "r">>
                  [] c = "<FF>" -> <<"\\", "x", "f", "f">>
                  [] c = "<FFFD>" -> <<"<FFFD>">>
                  [] OTHER -> <<c>>
       IN  q \o QuoteBytes(Tail(s))

Quote(s) == <<"\"">> \o QuoteBytes(s) \o <<"\"">>

\* strings.Cut: the part of s before the first sep, all of s if there is none
Before(s, sep) ==
  Only({IF i = 0 THEN s ELSE SubSeq(s, 1, i - 1) : i \in {IndexByte(s, sep)}})

\* strings.LastIndex of one byte, 0 if there is none
LastIndexByte(s, c) ==
  IF \E i \in 1..Len(s) : s[i] = c
  THEN CHOOSE i \in 1..Len(s) : s[i] = c /\ \A j \in (i + 1)..Len(s) : s[j] # c
  ELSE 0

\* the least number of a set of numbers, 0 if the set is empty
First(S) == IF S = {} THEN 0 ELSE CHOOSE k \in S : \A j \in S : k <= j

\* getScheme: (scheme, rest, err)
getScheme(rawURL) ==
  LET returns(i) == rawURL[i] \notin Letter /\ (rawURL[i] \notin Digit \cup {"+", "-", "."} \/ i = 1)
  IN  Only({IF i = 0 THEN [scheme |-> <<>>, rest |-> rawURL, err |-> Nil]
            ELSE IF rawURL[i] = ":"
            THEN IF i = 1
                 THEN [scheme |-> <<>>, rest |-> <<>>,
                       err |-> Errorf(<<"m", "i", "s", "s", "i", "n", "g",
                                        " ", "p", "r", "o", "t", "o", "c",
                                        "o", "l", " ", "s", "c", "h", "e",
                                        "m", "e">>)]
                 ELSE [scheme |-> SubSeq(rawURL, 1, i - 1),
                       rest |-> SubSeq(rawURL, i + 1, Len(rawURL)), err |-> Nil]
            ELSE [scheme |-> <<>>, rest |-> rawURL, err |-> Nil] :
            i \in {First({k \in 1..Len(rawURL) : returns(k)})}})

\* unescape: the first % of s that is not followed by two hexadecimal
\* digits, or in a host by the escape of a byte below 0x80; 0 if there is none
BadEscape(s, inHost) ==
  LET bad(i) ==
        /\ s[i] = "%"
        /\ \/ i + 2 > Len(s)
           \/ s[i + 1] \notin HexDigit \/ s[i + 2] \notin HexDigit
           \/ inHost /\ s[i + 1] \in {"0", "1", "2", "3", "4", "5", "6", "7"}
  IN  First({i \in 1..Len(s) : bad(i)})

\* EscapeError: the escape at b of s, cut at the end of s
EscapeError(s, b) ==
  Errorf(<<"i", "n", "v", "a", "l", "i", "d", " ", "U", "R", "L", " ", "e",
           "s", "c", "a", "p", "e", " ">> \o
         Quote(SubSeq(s, b, IF b + 2 > Len(s) THEN Len(s) ELSE b + 2)))

\* the bytes shouldEscape(c, encodeHost) lets stand in a host
HostByte ==
  Letter \cup Digit \cup {"-", "_", ".", "~", "%"} \cup
  {"!", "$", "&", "'", "(", ")", "*", "+", ",", ";", "=", ":", "[", "]", "<", ">", "\""} \cup
  {"<FF>", "<FFFD>"}

\* validUserinfo
UserinfoByte ==
  Letter \cup Digit \cup
  {"-", ".", "_", ":", "~", "!", "$", "&", "'", "(", ")", "*", "+", ",", ";", "=", "%", "@"}

\* validOptionalPort
validOptionalPort(port) ==
  port = <<>> \/ (port[1] = ":" /\ \A i \in 2..Len(port) : port[i] \in Digit)

\* parseHost: (host, err)
parseHost(host) ==
  Only({IF i # 0 /\ ~validOptionalPort(SubSeq(host, i, Len(host)))
        THEN [host |-> <<>>,
              err |-> Errorf(<<"i", "n", "v", "a", "l", "i", "d", " ", "p",
                               "o", "r", "t", " ">> \o Quote(SubSeq(host, i, Len(host))) \o
                             <<" ", "a", "f", "t", "e", "r", " ", "h", "o",
                               "s", "t">>)]
        ELSE IF b # 0 THEN [host |-> <<>>, err |-> EscapeError(host, b)]
        ELSE IF k # 0
        THEN [host |-> <<>>,
              err |-> Errorf(<<"i", "n", "v", "a", "l", "i", "d", " ", "c",
                               "h", "a", "r", "a", "c", "t", "e", "r", " ">> \o Quote(<<host[k]>>) \o
                             <<" ", "i", "n", " ", "h", "o", "s", "t", " ",
                               "n", "a", "m", "e">>)]
        ELSE [host |-> host, err |-> Nil] :
        i \in {LastIndexByte(host, ":")},
        b \in {BadEscape(host, TRUE)},
        k \in {First({m \in 1..Len(host) : host[m] \notin HostByte})}})

\* parseAuthority: (host, err)
parseAuthority(authority) ==
  Only({Only({IF parsed.err # Nil \/ i = 0 THEN parsed
              ELSE IF \E k \in 1..(i - 1) : authority[k] \notin UserinfoByte
              THEN [host |-> <<>>, err |-> Errorf(<<"n", "e", "t", "/", "u",
                                                    "r", "l", ":", " ", "i",
                                                    "n", "v", "a", "l", "i",
                                                    "d", " ", "u", "s", "e",
                                                    "r", "i", "n", "f", "o">>)]
              ELSE parsed :
              parsed \in {parseHost(SubSeq(authority, i + 1, Len(authority)))}}) :
        i \in {LastIndexByte(authority, "@")}})

\* parse, from the authority on: rest begins with // and is cut at its ?
parseFromAuthority(Scheme, rest) ==
  Only({Only({IF auth.err # Nil THEN [Scheme |-> <<>>, Host |-> <<>>, err |-> auth.err]
              ELSE IF b # 0
              THEN [Scheme |-> <<>>, Host |-> <<>>, err |-> EscapeError(path, b)]
              ELSE [Scheme |-> Scheme, Host |-> auth.host, err |-> Nil] :
              auth \in {parseAuthority(authority)},
              b \in {BadEscape(path, FALSE)}}) :
        authority \in {Before(SubSeq(rest, 3, Len(rest)), "/")},
        path \in {SubSeq(rest, Len(Before(SubSeq(rest, 3, Len(rest)), "/")) + 3, Len(rest))}})

\* parse, after the scheme: rest is cut at its ?
parseAfterScheme(Scheme, rest) ==
  IF ~HasPrefix(rest, <<"/">>) /\ Scheme # <<>>
  THEN [Scheme |-> Scheme, Host |-> <<>>, err |-> Nil]
  ELSE IF ~HasPrefix(rest, <<"/">>) /\ IndexByte(Before(rest, "/"), ":") # 0
  THEN [Scheme |-> <<>>, Host |-> <<>>,
        err |-> Errorf(<<"f", "i", "r", "s", "t", " ", "p", "a", "t", "h",
                         " ", "s", "e", "g", "m", "e", "n", "t", " ", "i",
                         "n", " ", "U", "R", "L", " ", "c", "a", "n", "n",
                         "o", "t", " ", "c", "o", "n", "t", "a", "i", "n",
                         " ", "c", "o", "l", "o", "n">>)]
  ELSE IF HasPrefix(rest, <<"/", "/">>) /\ (Scheme # <<>> \/ ~HasPrefix(rest, <<"/", "/", "/">>))
  THEN parseFromAuthority(Scheme, rest)
  ELSE Only({IF b # 0 THEN [Scheme |-> <<>>, Host |-> <<>>, err |-> EscapeError(rest, b)]
             ELSE [Scheme |-> Scheme, Host |-> <<>>, err |-> Nil] :
             b \in {BadEscape(rest, FALSE)}})

\* parse: (Scheme, Host, err) of a URL without its fragment
parse(rawURL) ==
  IF \E i \in 1..Len(rawURL) : rawURL[i] \in CtlByte
  THEN [Scheme |-> <<>>, Host |-> <<>>,
        err |-> Errorf(<<"n", "e", "t", "/", "u", "r", "l", ":", " ", "i",
                         "n", "v", "a", "l", "i", "d", " ", "c", "o", "n",
                         "t", "r", "o", "l", " ", "c", "h", "a", "r", "a",
                         "c", "t", "e", "r", " ", "i", "n", " ", "U", "R",
                         "L">>)]
  ELSE IF rawURL = <<"*">> THEN [Scheme |-> <<>>, Host |-> <<>>, err |-> Nil]
  ELSE Only({IF sch.err # Nil THEN [Scheme |-> <<>>, Host |-> <<>>, err |-> sch.err]
             ELSE Only({parseAfterScheme(Scheme, rest) :
                        Scheme \in {ToLowerString(sch.scheme)},
                        rest \in {Before(sch.rest, "?")}}) :
             sch \in {getScheme(rawURL)}})

\* url.Parse: (Scheme, Host, err); err is the *url.Error
Parse(rawURL) ==
  Only({Only({IF url.err = Nil THEN url
              ELSE [Scheme |-> <<>>, Host |-> <<>>,
                    err |-> Errorf(<<"p", "a", "r", "s", "e", " ">> \o Quote(u) \o <<":", " ">> \o url.err.Error)] :
              url \in {parse(u)}}) :
        u \in {Before(rawURL, "#")}})

(***************************************************************************)
(* Validation (the second file of config.go).                              *)
(***************************************************************************)
\* validateURL: the error, Nil if there is none
validateURL(urlString) ==
  IF urlString = <<>> THEN Nil
  ELSE Only({IF parsedURL.err # Nil
             THEN Errorf(<<"i", "n", "v", "a", "l", "i", "d", " ", "U", "R",
                           "L", " ", "f", "o", "r", "m", "a", "t", ":", " ">> \o parsedURL.err.Error)
             ELSE IF parsedURL.Scheme = <<>>
             THEN Errorf(<<"U", "R", "L", " ", "m", "u", "s", "t", " ", "i",
                           "n", "c", "l", "u", "d", "e", " ", "s", "c", "h",
                           "e", "m", "e", " ", "(", "h", "t", "t", "p", ":",
                           "/", "/", " ", "o", "r", " ", "h", "t", "t", "p",
                           "s", ":", "/", "/", ")">>)
             ELSE IF parsedURL.Scheme # <<"h", "t", "t", "p">> /\ parsedURL.Scheme # <<"h",
                                                                         "t",
                                                                         "t",
                                                                         "p",
                                                                         "s">>
             THEN Errorf(<<"U", "R", "L", " ", "s", "c", "h", "e", "m", "e",
                           " ", "m", "u", "s", "t", " ", "b", "e", " ", "h",
                           "t", "t", "p", " ", "o", "r", " ", "h", "t", "t",
                           "p", "s">>)
             ELSE IF parsedURL.Host = <<>> THEN Errorf(<<"U", "R", "L", " ",
                                                         "m", "u", "s", "t",
                                                         " ", "i", "n", "c",
                                                         "l", "u", "d", "e",
                                                         " ", "a", " ", "h",
                                                         "o", "s", "t">>)
             ELSE Nil : parsedURL \in {Parse(urlString)}})

validModels ==
  <<<<"g", "p", "t", "-", "4", "o">>, <<"g", "p", "t", "-", "4", "o", "-", "m", "i", "n", "i">>, <<"g", "p", "t", "-", "4">>, <<"g", "p", "t", "-", "4", "-",
                                              "t", "u", "r", "b", "o">>, <<"g", "p",
                                                               "t", "-",
                                                               "3", ".",
                                                               "5", "-",
                                                               "t", "u",
                                                               "r", "b", "o">>,
    <<"g", "p", "t", "-", "4", "-", "3", "2", "k">>, <<"g", "p", "t", "-", "4", "-", "0", "6", "1", "3">>, <<"g", "p", "t", "-", "4", "-", "3", "2",
                                     "k", "-", "0", "6", "1", "3">>, <<"g", "p", "t", "-",
                                                         "3", ".", "5", "-",
                                                         "t", "u", "r", "b",
                                                         "o", "-", "1", "6",
                                                         "k">>>>

\* validateModelName: the error, Nil if there is none
validateModelName(provider, model) ==
  IF model = <<>> THEN Nil
  ELSE IF provider = openai
  THEN IF ~contains(validModels, model) /\ ~HasPrefix(model, <<"g", "p",
                                                               "t", "-">>)
       THEN Errorf(<<"m", "o", "d", "e", "l", " ", "'">> \o model \o <<"'", " ", "m", "a", "y", " ",
                                             "n", "o", "t", " ", "b", "e",
                                             " ", "v", "a", "l", "i", "d",
                                             " ", "f", "o", "r", " ", "O",
                                             "p", "e", "n", "A", "I", " ",
                                             "(", "e", "x", "p", "e", "c",
                                             "t", "e", "d", " ", "f", "o",
                                             "r", "m", "a", "t", ":", " ",
                                             "g", "p", "t", "-", "*", ")">>)
       ELSE Nil
  ELSE IF provider = anthropic
  THEN IF ~HasPrefix(model, <<"c", "l", "a", "u", "d", "e", "-">>)
       THEN Errorf(<<"m", "o", "d", "e", "l", " ", "'">> \o model \o <<"'", " ", "m", "a", "y", " ",
                                             "n", "o", "t", " ", "b", "e",
                                             " ", "v", "a", "l", "i", "d",
                                             " ", "f", "o", "r", " ", "A",
                                             "n", "t", "h", "r", "o", "p",
                                             "i", "c", " ", "(", "e", "x",
                                             "p", "e", "c", "t", "e", "d",
                                             " ", "f", "o", "r", "m", "a",
                                             "t", ":", " ", "c", "l", "a",
                                             "u", "d", "e", "-", "*", ")">>)
       ELSE Nil
  ELSE IF provider = gemini
  THEN IF ~HasPrefix(model, <<"g", "e", "m", "i", "n", "i", "-">>) /\ ~HasPrefix(model, <<"m", "o",
                                                                "d", "e",
                                                                "l", "s",
                                                                "/", "g",
                                                                "e", "m",
                                                                "i", "n",
                                                                "i", "-">>)
       THEN Errorf(<<"m", "o", "d", "e", "l", " ", "'">> \o model \o
            <<"'", " ", "m", "a", "y", " ", "n", "o", "t", " ", "b", "e",
              " ", "v", "a", "l", "i", "d", " ", "f", "o", "r", " ", "G",
              "e", "m", "i", "n", "i", " ", "(", "e", "x", "p", "e", "c",
              "t", "e", "d", " ", "f", "o", "r", "m", "a", "t", ":", " ",
              "g", "e", "m", "i", "n", "i", "-", "*", " ", "o", "r", " ",
              "m", "o", "d", "e", "l", "s", "/", "g", "e", "m", "i", "n",
              "i", "-", "*", ")">>)
       ELSE Nil
  ELSE IF provider = deepseek
  THEN IF ~HasPrefix(model, <<"d", "e", "e", "p", "s", "e", "e", "k", "-">>)
       THEN Errorf(<<"m", "o", "d", "e", "l", " ", "'">> \o model \o <<"'", " ", "m", "a", "y", " ",
                                             "n", "o", "t", " ", "b", "e",
                                             " ", "v", "a", "l", "i", "d",
                                             " ", "f", "o", "r", " ", "D",
                                             "e", "e", "p", "S", "e", "e",
                                             "k", " ", "(", "e", "x", "p",
                                             "e", "c", "t", "e", "d", " ",
                                             "f", "o", "r", "m", "a", "t",
                                             ":", " ", "d", "e", "e", "p",
                                             "s", "e", "e", "k", "-", "*",
                                             ")">>)
       ELSE Nil
  ELSE Nil

\* a ValidationError
ValidationError(field, message) == [Field |-> field, Message |-> message]

\* validateProviderConfig: the ValidationErrors, in the order they are appended
validateProviderConfig(providerName, cfg) ==
  LET prefix == providerName
  IN  Only({(IF urlErr # Nil
             THEN <<ValidationError(prefix \o <<".", "b", "a", "s", "e",
                                                "_", "u", "r", "l">>, urlErr.Error)>> ELSE <<>>)
            \o (IF modelErr # Nil
                THEN <<ValidationError(prefix \o <<".", "m", "o", "d", "e",
                                                   "l">>, modelErr.Error)>> ELSE <<>>) :
            urlErr \in {IF cfg.BaseURL # <<>> THEN validateURL(cfg.BaseURL) ELSE Nil},
            modelErr \in {IF cfg.Model # <<>> THEN validateModelName(providerName, cfg.Model)
                          ELSE Nil}})

\* validateAzureOpenAIConfig were a resource name beside a base URL passed
\* over, the base URL being the one that is used
validateAzureOpenAIConfigBaseURLWins(cfg) ==
  validateProviderConfig(azure_openai, cfg)
  \o (IF cfg.DeploymentName = <<>> /\ cfg.APIKey # <<>>
      THEN <<ValidationError(<<"a", "z", "u", "r", "e", "_", "o", "p", "e",
                               "n", "a", "i", ".", "d", "e", "p", "l", "o",
                               "y", "m", "e", "n", "t", "_", "n", "a", "m",
                               "e">>,
               <<"d", "e", "p", "l", "o", "y", "m", "e", "n", "t", "_", "n",
                 "a", "m", "e", " ", "i", "s", " ", "r", "e", "q", "u", "i",
                 "r", "e", "d", " ", "w", "h", "e", "n", " ", "u", "s", "i",
                 "n", "g", " ", "A", "z", "u", "r", "e", " ", "O", "p", "e",
                 "n", "A", "I">>)>>
      ELSE <<>>)
  \o (IF cfg.APIVersion # <<>> /\ ~isValidAzureAPIVersion(cfg.APIVersion)
      THEN <<ValidationError(<<"a", "z", "u", "r", "e", "_", "o", "p", "e",
                               "n", "a", "i", ".", "a", "p", "i", "_", "v",
                               "e", "r", "s", "i", "o", "n">>,
               <<"i", "n", "v", "a", "l", "i", "d", " ", "A", "P", "I", " ",
                 "v", "e", "r", "s", "i", "o", "n", " ", "f", "o", "r", "m",
                 "a", "t", ",", " ", "s", "h", "o", "u", "l", "d", " ", "b",
                 "e", " ", "i", "n", " ", "f", "o", "r", "m", "a", "t", " ",
                 "Y", "Y", "Y", "Y", "-", "M", "M", "-", "D", "D">>)>>
      ELSE <<>>)

\* validateAzureOpenAIConfig
validateAzureOpenAIConfig(cfg) ==
  validateProviderConfig(azure_openai, cfg)
  \o (IF cfg.ResourceName # <<>> /\ cfg.BaseURL # <<>>
      THEN <<ValidationError(<<"a", "z", "u", "r", "e", "_", "o", "p", "e",
                               "n", "a", "i", ".", "r", "e", "s", "o", "u",
                               "r", "c", "e", "_", "n", "a", "m", "e">>,
               <<"c", "a", "n", "n", "o", "t", " ", "s", "p", "e", "c", "i",
                 "f", "y", " ", "b", "o", "t", "h", " ", "r", "e", "s", "o",
                 "u", "r", "c", "e", "_", "n", "a", "m", "e", " ", "a", "n",
                 "d", " ", "b", "a", "s", "e", "_", "u", "r", "l", ",", " ",
                 "u", "s", "e", " ", "o", "n", "e", " ", "o", "r", " ", "t",
                 "h", "e", " ", "o", "t", "h", "e", "r">>)>>
      ELSE <<>>)
  \o (IF cfg.DeploymentName = <<>> /\ cfg.APIKey # <<>>
      THEN <<ValidationError(<<"a", "z", "u", "r", "e", "_", "o", "p", "e",
                               "n", "a", "i", ".", "d", "e", "p", "l", "o",
                               "y", "m", "e", "n", "t", "_", "n", "a", "m",
                               "e">>,
               <<"d", "e", "p", "l", "o", "y", "m", "e", "n", "t", "_", "n",
                 "a", "m", "e", " ", "i", "s", " ", "r", "e", "q", "u", "i",
                 "r", "e", "d", " ", "w", "h", "e", "n", " ", "u", "s", "i",
                 "n", "g", " ", "A", "z", "u", "r", "e", " ", "O", "p", "e",
                 "n", "A", "I">>)>>
      ELSE <<>>)
  \o (IF cfg.APIVersion # <<>> /\ ~isValidAzureAPIVersion(cfg.APIVersion)
      THEN <<ValidationError(<<"a", "z", "u", "r", "e", "_", "o", "p", "e",
                               "n", "a", "i", ".", "a", "p", "i", "_", "v",
                               "e", "r", "s", "i", "o", "n">>,
               <<"i", "n", "v", "a", "l", "i", "d", " ", "A", "P", "I", " ",
                 "v", "e", "r", "s", "i", "o", "n", " ", "f", "o", "r", "m",
                 "a", "t", ",", " ", "s", "h", "o", "u", "l", "d", " ", "b",
                 "e", " ", "i", "n", " ", "f", "o", "r", "m", "a", "t", " ",
                 "Y", "Y", "Y", "Y", "-", "M", "M", "-", "D", "D">>)>>
      ELSE <<>>)

\* Validate: the error, which is the ValidationErrors, or Nil
Validate(c) ==
  LET general ==
        IF c.DefaultProvider # <<>> /\ ~isValidProvider(c.DefaultProvider)
        THEN <<ValidationError(<<"d", "e", "f", "a", "u", "l", "t", "_",
                                 "p", "r", "o", "v", "i", "d", "e", "r">>,
                 <<"i", "n", "v", "a", "l", "i", "d", " ", "p", "r", "o",
                   "v", "i", "d", "e", "r", " ", "'">> \o c.DefaultProvider \o
                 <<"'", ",", " ", "m", "u", "s", "t", " ", "b", "e", " ",
                   "o", "n", "e", " ", "o", "f", ":", " ", "o", "p", "e",
                   "n", "a", "i", ",", " ", "a", "z", "u", "r", "e", "_",
                   "o", "p", "e", "n", "a", "i", ",", " ", "a", "n", "t",
                   "h", "r", "o", "p", "i", "c", ",", " ", "g", "e", "m",
                   "i", "n", "i", ",", " ", "d", "e", "e", "p", "s", "e",
                   "e", "k">>)>>
        ELSE <<>>
      of(section, providerName) ==
        IF section # Nil THEN validateProviderConfig(providerName, section) ELSE <<>>
  IN  Only({IF Len(errors) > 0 THEN [ValidationErrors |-> errors] ELSE Nil :
            errors \in {general
                        \o of(c.OpenAI, openai)
                        \o of(c.OpenAICompatible, openai_compatible)
                        \o (IF c.AzureOpenAI # Nil THEN validateAzureOpenAIConfig(c.AzureOpenAI)
                            ELSE <<>>)
                        \o of(c.Anthropic, anthropic)
                        \o of(c.Gemini, gemini)
                        \o of(c.DeepSeek, deepseek)}})

(***************************************************************************)
(* The accessors of Config (the first file of config.go).  The cases of a  *)
(* switch over the provider are one table here: the section of a provider  *)
(* and the name the messages call it by.                                   *)
(***************************************************************************)
\* the section the case of provider reads
sectionOf(c, provider) ==
  CASE provider = openai -> c.OpenAI
    [] provider = openai_compatible -> c.OpenAICompatible
    [] provider = azure_openai -> c.AzureOpenAI
    [] provider = anthropic -> c.Anthropic
    [] provider = gemini -> c.Gemini
    [] provider = deepseek -> c.DeepSeek

\* the name of the provider in the messages
displayName(provider) ==
  CASE provider = openai -> <<"O", "p", "e", "n", "A", "I">>
    [] provider = openai_compatible -> <<"O", "p", "e", "n", "A", "I", " ",
                                         "C", "o", "m", "p", "a", "t", "i",
                                         "b", "l", "e">>
    [] provider = azure_openai -> <<"A", "z", "u", "r", "e", " ", "O", "p",
                                    "e", "n", "A", "I">>
    [] provider = anthropic -> <<"A", "n", "t", "h", "r", "o", "p", "i", "c">>
    [] provider = gemini -> <<"G", "e", "m", "i", "n", "i">>
    [] provider = deepseek -> <<"D", "e", "e", "p", "S", "e", "e", "k">>

\* GetProviderConfig were azure_openai one of its cases, answered with the
\* ProviderConfig embedded in the Azure section
GetProviderConfigWithAzure(c, provider) ==
  IF provider \in {openai, openai_compatible, azure_openai, anthropic, gemini, deepseek}
  THEN IF sectionOf(c, provider) = Nil
       THEN [cfg |-> Nil, err |-> Errorf(displayName(provider) \o <<" ",
                                                                    "c",
                                                                    "o",
                                                                    "n",
                                                                    "f",
                                                                    "i",
                                                                    "g",
                                                                    "u",
                                                                    "r",
                                                                    "a",
                                                                    "t",
                                                                    "i",
                                                                    "o",
                                                                    "n",
                                                                    " ",
                                                                    "n",
                                                                    "o",
                                                                    "t",
                                                                    " ",
                                                                    "f",
                                                                    "o",
                                                                    "u",
                                                                    "n", "d">>)]
       ELSE [cfg |-> sectionOf(c, provider), err |-> Nil]
  ELSE [cfg |-> Nil, err |-> Errorf(<<"u", "n", "s", "u", "p", "p", "o",
                                      "r", "t", "e", "d", " ", "p", "r",
                                      "o", "v", "i", "d", "e", "r", ":", " ">> \o provider)]

\* GetProviderConfig: (the section, the error)
GetProviderConfig(c, provider) ==
  IF provider \in {openai, openai_compatible, anthropic, gemini, deepseek}
  THEN IF sectionOf(c, provider) = Nil
       THEN [cfg |-> Nil, err |-> Errorf(displayName(provider) \o <<" ",
                                                                    "c",
                                                                    "o",
                                                                    "n",
                                                                    "f",
                                                                    "i",
                                                                    "g",
                                                                    "u",
                                                                    "r",
                                                                    "a",
                                                                    "t",
                                                                    "i",
                                                                    "o",
                                                                    "n",
                                                                    " ",
                                                                    "n",
                                                                    "o",
                                                                    "t",
                                                                    " ",
                                                                    "f",
                                                                    "o",
                                                                    "u",
                                                                    "n", "d">>)]
       ELSE [cfg |-> sectionOf(c, provider), err |-> Nil]
  ELSE [cfg |-> Nil, err |-> Errorf(<<"u", "n", "s", "u", "p", "p", "o",
                                      "r", "t", "e", "d", " ", "p", "r",
                                      "o", "v", "i", "d", "e", "r", ":", " ">> \o provider)]

\* GetAPIKey: (the key, the error)
GetAPIKey(c, provider) ==
  LET configKey ==
        IF isValidProvider(provider) /\ sectionOf(c, provider) # Nil
        THEN sectionOf(c, provider).APIKey
        ELSE <<>>
  IN  IF configKey # <<>> THEN [key |-> configKey, err |-> Nil]
      ELSE [key |-> <<>>, err |-> Errorf(provider \o <<" ", "A", "P", "I",
                                                       " ", "k", "e", "y",
                                                       " ", "n", "o", "t",
                                                       " ", "f", "o", "u",
                                                       "n", "d", " ", "i",
                                                       "n", " ", "c", "o",
                                                       "n", "f", "i", "g",
                                                       " ", "f", "i", "l",
                                                       "e">>)]

\* ValidateProviderAvailable were only the section looked for, not its key
ValidateProviderAvailableSectionOnly(c, provider) ==
  IF ~isValidProvider(provider) THEN Errorf(<<"u", "n", "s", "u", "p", "p",
                                              "o", "r", "t", "e", "d", " ",
                                              "p", "r", "o", "v", "i", "d",
                                              "e", "r", ":", " ">> \o provider)
  ELSE IF sectionOf(c, provider) = Nil
  THEN Errorf(displayName(provider) \o <<" ", "p", "r", "o", "v", "i", "d",
                                         "e", "r", " ", "n", "o", "t", " ",
                                         "c", "o", "n", "f", "i", "g", "u",
                                         "r", "e", "d">>)
  ELSE Nil

\* ValidateProviderAvailable: the error, Nil if there is none
ValidateProviderAvailable(c, provider) ==
  IF ~isValidProvider(provider) THEN Errorf(<<"u", "n", "s", "u", "p", "p",
                                              "o", "r", "t", "e", "d", " ",
                                              "p", "r", "o", "v", "i", "d",
                                              "e", "r", ":", " ">> \o provider)
  ELSE IF sectionOf(c, provider) = Nil
  THEN Errorf(displayName(provider) \o <<" ", "p", "r", "o", "v", "i", "d",
                                         "e", "r", " ", "n", "o", "t", " ",
                                         "c", "o", "n", "f", "i", "g", "u",
                                         "r", "e", "d">>)
  ELSE IF sectionOf(c, provider).APIKey = <<>>
  THEN Errorf(displayName(provider) \o <<" ", "A", "P", "I", " ", "k", "e",
                                         "y", " ", "n", "o", "t", " ", "c",
                                         "o", "n", "f", "i", "g", "u", "r",
                                         "e", "d">>)
  ELSE IF provider = azure_openai /\ c.AzureOpenAI.DeploymentName = <<>>
  THEN Errorf(<<"A", "z", "u", "r", "e", " ", "O", "p", "e", "n", "A", "I",
                " ", "d", "e", "p", "l", "o", "y", "m", "e", "n", "t", " ",
                "n", "a", "m", "e", " ", "n", "o", "t", " ", "c", "o", "n",
                "f", "i", "g", "u", "r", "e", "d">>)
  ELSE Nil

\* mergeProviderConfig were the fields of the defaults put over those of
\* the file
mergeProviderConfigOverwrite(provider, defaultProvider) ==
  [provider EXCEPT
     !.BaseURL = IF defaultProvider.BaseURL # <<>> THEN defaultProvider.BaseURL ELSE @,
     !.Model = IF defaultProvider.Model # <<>> THEN defaultProvider.Model ELSE @,
     !.APIVersion = IF defaultProvider.APIVersion # <<>> THEN defaultProvider.APIVersion ELSE @]

\* mergeProviderConfig: the provider section after the call
mergeProviderConfig(provider, defaultProvider) ==
  [provider EXCEPT
     !.BaseURL = IF @ = <<>> THEN defaultProvider.BaseURL ELSE @,
     !.Model = IF @ = <<>> THEN defaultProvider.Model ELSE @,
     !.APIVersion = IF @ = <<>> THEN defaultProvider.APIVersion ELSE @]

\* mergeConfigs: the config after the call
mergeConfigs(c, defaultConfig) ==
  LET merged(section, defaultSection) ==
        IF section = Nil THEN defaultSection
        ELSE mergeProviderConfig(section, defaultSection)
      azure ==
        IF c.AzureOpenAI = Nil THEN defaultConfig.AzureOpenAI
        ELSE LET m == mergeProviderConfig(c.AzureOpenAI, defaultConfig.AzureOpenAI)
             IN  IF m.APIVersion = <<>>
                 THEN [m EXCEPT !.APIVersion = defaultConfig.AzureOpenAI.APIVersion]
                 ELSE m
  IN  [DefaultProvider |-> IF c.DefaultProvider = <<>> THEN defaultConfig.DefaultProvider
                           ELSE c.DefaultProvider,
       OpenAI |-> merged(c.OpenAI, defaultConfig.OpenAI),
       OpenAICompatible |-> merged(c.OpenAICompatible, defaultConfig.OpenAICompatible),
       AzureOpenAI |-> azure,
       Anthropic |-> merged(c.Anthropic, defaultConfig.Anthropic),
       Gemini |-> merged(c.Gemini, defaultConfig.Gemini),
       DeepSeek |-> merged(c.DeepSeek, defaultConfig.DeepSeek)]

(***************************************************************************)
(* encoding/json for the Config struct.  A JSON text is modelled by what   *)
(* it holds: a value is [str |-> s] or [obj |-> o], o the function from    *)
(* the keys of the object to their values and s the tuple of the           *)
(* characters between the quotes of the string, every escape one element.  *)
(***************************************************************************)
\* the encoder's string: an invalid byte becomes U+FFFD; the quote, the
\* backslash, the control characters and the HTML characters are escaped
jsonEscape(c) ==
  CASE c = "<FF>" -> "<FFFD>"
    [] c = "\"" -> "\\\""
    [] c = "\\" -> "\\\\"
    [] c = "\n" -> "\\n"
    [] c = "\r" -> "\\r"
    [] c = "\t" -> "\\t"
    [] c = "<" -> "\\u003c"
    [] c = ">" -> "\\u003e"
    [] c = "&" -> "\\u0026"
    [] OTHER -> c

\* the decoder's reading of one element of a string
jsonUnescape(e) ==
  CASE e = "\\\"" -> "\""
    [] e = "\\\\" -> "\\"
    [] e = "\\n" -> "\n"
    [] e = "\\r" -> "\r"
    [] e = "\\t" -> "\t"
    [] e = "\\u003c" -> "<"
    [] e = "\\u003e" -> ">"
    [] e = "\\u0026" -> "&"
    [] e = "<FF>" -> "<FFFD>"
    [] OTHER -> e

encodeString(s) == [str |-> [i \in 1..Len(s) |-> jsonEscape(s[i])]]

decodeString(v) == [i \in 1..Len(v.str) |-> jsonUnescape(v.str[i])]

\* the keys of the struct tags
providerKeys == {"api_key", "base_url", "model", "api_version"}

azureKeys == providerKeys \cup {"resource_name", "deployment_name"}

sectionKeys == {"openai", "openai_compatible", "azure_openai", "anthropic", "gemini", "deepseek"}

\* the field of a struct a key is the tag of
fieldOf(s, key) ==
  CASE key = "api_key" -> s.APIKey
    [] key = "base_url" -> s.BaseURL
    [] key = "model" -> s.Model
    [] key = "api_version" -> s.APIVersion
    [] key = "resource_name" -> s.ResourceName
    [] key = "deployment_name" -> s.DeploymentName
    [] key = "openai" -> s.OpenAI
    [] key = "openai_compatible" -> s.OpenAICompatible
    [] key = "azure_openai" -> s.AzureOpenAI
    [] key = "anthropic" -> s.Anthropic
    [] key = "gemini" -> s.Gemini
    [] key = "deepseek" -> s.DeepSeek
    [] key = "default_provider" -> s.DefaultProvider

\* json.Marshal of a section: omitempty leaves an empty string out
marshalSection(s, keys) ==
  [obj |-> [k \in {key \in keys : fieldOf(s, key) # <<>>} |-> encodeString(fieldOf(s, k))]]

\* json.MarshalIndent of a Config: omitempty leaves a nil section and an
\* empty default_provider out
Marshal(c) ==
  LET present ==
        {k \in sectionKeys : fieldOf(c, k) # Nil}
        \cup (IF c.DefaultProvider # <<>> THEN {"default_provider"} ELSE {})
  IN  [obj |-> [k \in present |->
         IF k = "default_provider" THEN encodeString(c.DefaultProvider)
         ELSE marshalSection(fieldOf(c, k),
                             IF k = "azure_openai" THEN azureKeys ELSE providerKeys)]]

\* a text that is not JSON
NotJSON == [garbage |-> TRUE]

IsStr(v) == DOMAIN v = {"str"}

IsObj(v) == DOMAIN v = {"obj"}

\* whether every value of the document has the type of its field
wellTyped(doc) ==
  /\ IsObj(doc)
  /\ \A k \in DOMAIN doc.obj :
       IF k = "default_provider" THEN IsStr(doc.obj[k])
       ELSE IF k \in sectionKeys
       THEN /\ IsObj(doc.obj[k])
            /\ \A f \in DOMAIN doc.obj[k].obj :
                 f \in (IF k = "azure_openai" THEN azureKeys ELSE providerKeys)
                   => IsStr(doc.obj[k].obj[f])
       ELSE TRUE

\* the string of key in an object, empty if the key is not there
stringAt(o, key) == IF key \in DOMAIN o THEN decodeString(o[key]) ELSE <<>>

\* json.Unmarshal into a zero Config: (the Config, the error)
Unmarshal(data) ==
  IF data = NotJSON
  THEN [cfg |-> Config,
        err |-> Errorf(<<"i", "n", "v", "a", "l", "i", "d", " ", "c", "h",
                         "a", "r", "a", "c", "t", "e", "r", " ", "'", "x",
                         "'", " ", "l", "o", "o", "k", "i", "n", "g", " ",
                         "f", "o", "r", " ", "b", "e", "g", "i", "n", "n",
                         "i", "n", "g", " ", "o", "f", " ", "v", "a", "l",
                         "u", "e">>)]
  ELSE IF ~wellTyped(data)
  THEN [cfg |-> Config,
        err |-> Errorf(<<"j", "s", "o", "n", ":", " ", "c", "a", "n", "n",
                         "o", "t", " ", "u", "n", "m", "a", "r", "s", "h",
                         "a", "l", " ", "s", "t", "r", "i", "n", "g", " ",
                         "i", "n", "t", "o", " ", "G", "o", " ", "s", "t",
                         "r", "u", "c", "t", " ", "f", "i", "e", "l", "d">>)]
  ELSE LET o == data.obj
           provider(k) ==
             IF k \notin DOMAIN o THEN Nil
             ELSE [APIKey |-> stringAt(o[k].obj, "api_key"),
                   BaseURL |-> stringAt(o[k].obj, "base_url"),
                   Model |-> stringAt(o[k].obj, "model"),
                   APIVersion |-> stringAt(o[k].obj, "api_version")]
           azure ==
             IF "azure_openai" \notin DOMAIN o THEN Nil
             ELSE [APIKey |-> stringAt(o["azure_openai"].obj, "api_key"),
                   BaseURL |-> stringAt(o["azure_openai"].obj, "base_url"),
                   Model |-> stringAt(o["azure_openai"].obj, "model"),
                   APIVersion |-> stringAt(o["azure_openai"].obj, "api_version"),
                   ResourceName |-> stringAt(o["azure_openai"].obj, "resource_name"),
                   DeploymentName |-> stringAt(o["azure_openai"].obj, "deployment_name")]
       IN  [cfg |-> [OpenAI |-> provider("openai"),
                     OpenAICompatible |-> provider("openai_compatible"),
                     AzureOpenAI |-> azure,
                     Anthropic |-> provider("anthropic"),
                     Gemini |-> provider("gemini"),
                     DeepSeek |-> provider("deepseek"),
                     DefaultProvider |-> stringAt(o, "default_provider")],
            err |-> Nil]

(***************************************************************************)
(* The configuration file: NoConfigFile, or its permission bits and its content. *)
(* The process is not the superuser.                                       *)
(***************************************************************************)
NoConfigFile == [exists |-> FALSE]

\* the permission bits a file of the model has
Modes == {"0600", "0644", "0200", "0000"}

\* whether the owner may read, and write, a file of these bits
ownerReads(mode) == mode \in {"0600", "0644"}

ownerWrites(mode) == mode \in {"0600", "0644", "0200"}

\* the path the process keeps its configuration at
configPath == <<"/", "h", "o", "m", "e", "/", "u", "/", ".", "c", "o", "n",
                "f", "i", "g", "/", "s", "m", "a", "r", "t", "-", "s", "u",
                "g", "g", "e", "s", "t", "i", "o", "n", "/", "c", "o", "n",
                "f", "i", "g", ".", "j", "s", "o", "n">>

\* LoadConfig: (the Config, the error)
LoadConfig(file, path) ==
  IF path = <<>> THEN [cfg |-> Nil, err |-> Errorf(<<"c", "o", "n", "f",
                                                     "i", "g", " ", "f",
                                                     "i", "l", "e", " ",
                                                     "p", "a", "t", "h",
                                                     " ", "i", "s", " ",
                                                     "r", "e", "q", "u",
                                                     "i", "r", "e", "d">>)]
  ELSE IF file = NoConfigFile
  THEN [cfg |-> Nil, err |-> Errorf(<<"c", "o", "n", "f", "i", "g", " ",
                                      "f", "i", "l", "e", " ", "n", "o",
                                      "t", " ", "f", "o", "u", "n", "d",
                                      ":", " ">> \o path)]
  ELSE IF ~ownerReads(file.mode)
  THEN [cfg |-> Nil,
        err |-> Errorf(<<"f", "a", "i", "l", "e", "d", " ", "t", "o", " ",
                         "r", "e", "a", "d", " ", "c", "o", "n", "f", "i",
                         "g", " ", "f", "i", "l", "e", ":", " ", "o", "p",
                         "e", "n", " ">> \o path \o
                       <<":", " ", "p", "e", "r", "m", "i", "s", "s", "i",
                         "o", "n", " ", "d", "e", "n", "i", "e", "d">>)]
  ELSE LET parsed == Unmarshal(file.data)
       IN  IF parsed.err # Nil
           THEN [cfg |-> Nil,
                 err |-> Errorf(<<"f", "a", "i", "l", "e", "d", " ", "t",
                                  "o", " ", "p", "a", "r", "s", "e", " ",
                                  "c", "o", "n", "f", "i", "g", " ", "f",
                                  "i", "l", "e", ":", " ">> \o parsed.err.Error)]
           ELSE [cfg |-> mergeConfigs(parsed.cfg, DefaultConfig), err |-> Nil]

\* os.WriteFile(path, data, perm): (the file, the error).  The file is
\* opened with O_WRONLY|O_CREATE|O_TRUNC; perm is given to a file that is
\* created and is not looked at for one that exists.  short: the write
\* fails after the file was opened and cut to length 0.
WriteFile(file, path, data, perm, short) ==
  IF file # NoConfigFile /\ ~ownerWrites(file.mode)
  THEN [file |-> file, err |-> Errorf(<<"o", "p", "e", "n", " ">> \o path \o <<":", " ", "p",
                                                             "e", "r", "m",
                                                             "i", "s", "s",
                                                             "i", "o", "n",
                                                             " ", "d", "e",
                                                             "n", "i", "e",
                                                             "d">>)]
  ELSE LET mode == IF file = NoConfigFile THEN perm ELSE file.mode
       IN  IF short
           THEN [file |-> [mode |-> mode, data |-> NotJSON],
                 err |-> Errorf(<<"w", "r", "i", "t", "e", " ">> \o path \o <<":", " ", "n", "o",
                                                        " ", "s", "p", "a",
                                                        "c", "e", " ", "l",
                                                        "e", "f", "t", " ",
                                                        "o", "n", " ", "d",
                                                        "e", "v", "i", "c",
                                                        "e">>)]
           ELSE [file |-> [mode |-> mode, data |-> data], err |-> Nil]

\* SaveConfig: (the file, the error).  mkdirFails: os.MkdirAll returns an
\* error; short: see WriteFile.
SaveConfig(c, file, path, mkdirFails, short) ==
  IF path = <<>> THEN [file |-> file, err |-> Errorf(<<"c", "o", "n", "f",
                                                       "i", "g", " ", "f",
                                                       "i", "l", "e", " ",
                                                       "p", "a", "t", "h",
                                                       " ", "i", "s", " ",
                                                       "r", "e", "q", "u",
                                                       "i", "r", "e", "d">>)]
  ELSE IF mkdirFails
  THEN [file |-> file,
        err |-> Errorf(<<"f", "a", "i", "l", "e", "d", " ", "t", "o", " ",
                         "c", "r", "e", "a", "t", "e", " ", "c", "o", "n",
                         "f", "i", "g", " ", "d", "i", "r", "e", "c", "t",
                         "o", "r", "y", ":", " ", "m", "k", "d", "i", "r",
                         " ", "/", "h", "o", "m", "e", "/", "u", "/", ".",
                         "c", "o", "n", "f", "i", "g", ":", " ">> \o
                       <<"p", "e", "r", "m", "i", "s", "s", "i", "o", "n",
                         " ", "d", "e", "n", "i", "e", "d">>)]
  ELSE LET written == WriteFile(file, path, Marshal(c), "0600", short)
       IN  IF written.err # Nil
           THEN [file |-> written.file,
                 err |-> Errorf(<<"f", "a", "i", "l", "e", "d", " ", "t",
                                  "o", " ", "w", "r", "i", "t", "e", " ",
                                  "c", "o", "n", "f", "i", "g", " ", "f",
                                  "i", "l", "e", ":", " ">> \o written.err.Error)]
           ELSE [file |-> written.file, err |-> Nil]

(***************************************************************************)
(* The files of the model.                                                 *)
(***************************************************************************)
\* what a user or another program leaves at the path: a text that is not
\* JSON, a document with a string where a section belongs, one with a key
\* the struct does not have, and one with a written escape
FileInputs ==
  {NotJSON,
   [obj |-> [k \in {"openai"} |-> [str |-> <<"g", "p", "t", "-", "4">>]]],
   [obj |-> [k \in {"ollama", "default_provider"} |->
               IF k = "ollama" THEN [obj |-> [f \in {"model"} |-> [str |-> <<"l",
                                                                             "l",
                                                                             "a",
                                                                             "m",
                                                                             "a",
                                                                             "3">>]]]
               ELSE [str |-> anthropic]]],
   [obj |-> [k \in {"gemini"} |->
               [obj |-> [f \in {"api_key"} |-> [str |-> <<"k", "\\u0026", "5">>]]]]]}

(***************************************************************************)
(* The calls on the config package.                                        *)
(***************************************************************************)
ConfigInit ==
  /\ conf = Config
  /\ cfgFile = NoConfigFile
  /\ call = "Idle"
  /\ arg = <<>>
  /\ ret = Nil

\* the caller builds a Config
NewConfig(c) ==
  /\ call = "Idle"
  /\ conf' = c
  /\ UNCHANGED <<cfgFile, call, arg, ret>>
  /\ UNCHANGED <<filterVars, lockVars, logVars, sessionVars>>

\* c.Validate()
CallValidate ==
  /\ call = "Idle"
  /\ call' = "Validate"
  /\ arg' = <<>>
  /\ ret' = [err |-> Validate(conf)]
  /\ UNCHANGED <<conf, cfgFile>>
  /\ UNCHANGED <<filterVars, lockVars, logVars, sessionVars>>

\* validateProviderConfig(provider, section of the provider)
CallValidateProviderConfig(provider) ==
  /\ call = "Idle"
  /\ isValidProvider(provider)
  /\ sectionOf(conf, provider) # Nil
  /\ call' = "validateProviderConfig"
  /\ arg' = provider
  /\ ret' = [errors |-> validateProviderConfig(provider, sectionOf(conf, provider))]
  /\ UNCHANGED <<conf, cfgFile>>
  /\ UNCHANGED <<filterVars, lockVars, logVars, sessionVars>>

\* c.ValidateProviderAvailable(provider)
CallValidateProviderAvailable(provider) ==
  /\ call = "Idle"
  /\ call' = "ValidateProviderAvailable"
  /\ arg' = provider
  /\ ret' = [err |-> ValidateProviderAvailable(conf, provider)]
  /\ UNCHANGED <<conf, cfgFile>>
  /\ UNCHANGED <<filterVars, lockVars, logVars, sessionVars>>

\* c.GetAPIKey(provider)
CallGetAPIKey(provider) ==
  /\ call = "Idle"
  /\ call' = "GetAPIKey"
  /\ arg' = provider
  /\ ret' = GetAPIKey(conf, provider)
  /\ UNCHANGED <<conf, cfgFile>>
  /\ UNCHANGED <<filterVars, lockVars, logVars, sessionVars>>

\* c.GetProviderConfig(provider)
CallGetProviderConfig(provider) ==
  /\ call = "Idle"
  /\ call' = "GetProviderConfig"
  /\ arg' = provider
  /\ ret' = GetProviderConfig(conf, provider)
  /\ UNCHANGED <<conf, cfgFile>>
  /\ UNCHANGED <<filterVars, lockVars, logVars, sessionVars>>

\* LoadConfig(path); the caller goes on with the Config it was given
CallLoadConfig(path) ==
  /\ call = "Idle"
  /\ call' = "LoadConfig"
  /\ arg' = path
  /\ ret' = LoadConfig(cfgFile, path)
  /\ conf' = IF LoadConfig(cfgFile, path).err = Nil THEN LoadConfig(cfgFile, path).cfg ELSE conf
  /\ UNCHANGED cfgFile
  /\ UNCHANGED <<filterVars, lockVars, logVars, sessionVars>>

\* c.SaveConfig(path)
CallSaveConfig(path, mkdirFails, short) ==
  /\ call = "Idle"
  /\ call' = "SaveConfig"
  /\ arg' = path
  /\ ret' = [err |-> SaveConfig(conf, cfgFile, path, mkdirFails, short).err]
  /\ cfgFile' = SaveConfig(conf, cfgFile, path, mkdirFails, short).file
  /\ UNCHANGED conf
  /\ UNCHANGED <<filterVars, lockVars, logVars, sessionVars>>

\* the caller has read the result
ConfigReturn ==
  /\ call # "Idle"
  /\ call' = "Idle"
  /\ arg' = <<>>
  /\ ret' = Nil
  /\ UNCHANGED <<conf, cfgFile>>
  /\ UNCHANGED <<filterVars, lockVars, logVars, sessionVars>>

\* a user or another program writes the file with an editor: a new file
\* gets the bits 0644 of the usual umask, an old one keeps its bits
WriteExternally(data) ==
  /\ call = "Idle"
  /\ IF cfgFile = NoConfigFile THEN TRUE ELSE ownerWrites(cfgFile.mode)
  /\ cfgFile' = [mode |-> IF cfgFile = NoConfigFile THEN "0644" ELSE cfgFile.mode,
                 data |-> data]
  /\ UNCHANGED <<conf, call, arg, ret>>
  /\ UNCHANGED <<filterVars, lockVars, logVars, sessionVars>>

\* chmod on the file
Chmod(mode) ==
  /\ call = "Idle"
  /\ cfgFile # NoConfigFile
  /\ cfgFile' = [cfgFile EXCEPT !.mode = mode]
  /\ UNCHANGED <<conf, call, arg, ret>>
  /\ UNCHANGED <<filterVars, lockVars, logVars, sessionVars>>

\* rm of the file
Remove ==
  /\ call = "Idle"
  /\ cfgFile # NoConfigFile
  /\ cfgFile' = NoConfigFile
  /\ UNCHANGED <<conf, call, arg, ret>>
  /\ UNCHANGED <<filterVars, lockVars, logVars, sessionVars>>

\* the calls on a Config in memory
ConfigNext ==
  \/ \E c \in ConfigInputs : NewConfig(c)
  \/ CallValidate
  \/ \E p \in Providers : CallValidateProviderConfig(p)
  \/ \E p \in Providers : CallValidateProviderAvailable(p)
  \/ \E p \in Providers : CallGetAPIKey(p)
  \/ \E p \in Providers : CallGetProviderConfig(p)
  \/ ConfigReturn

\* the calls that read and write the file, and what happens to the file
\* besides
ConfigFileNext ==
  \/ \E c \in FileConfigs : NewConfig(c)
  \/ \E path \in {<<>>, configPath} : CallLoadConfig(path)
  \/ \E path \in {<<>>, configPath} : \E mkdirFails, short \in BOOLEAN :
       CallSaveConfig(path, mkdirFails, short)
  \/ CallValidate
  \/ \E data \in FileInputs : WriteExternally(data)
  \/ \E mode \in Modes : Chmod(mode)
  \/ Remove
  \/ ConfigReturn

vars == <<filterVars, lockVars, logVars, sessionVars, configVars>>

Init == FilterInit /\ LockInit /\ LogInit /\ SessionInit /\ ConfigInit

SpecFilter == Init /\ [][FilterNext]_vars

SpecLock == Init /\ [][LockNext]_vars

SpecLog == Init /\ [][LogNext]_vars

SpecSession == Init /\ [][SessionNext]_vars

SpecConfig == Init /\ [][ConfigNext]_vars

SpecConfigFile == Init /\ [][ConfigFileNext]_vars

(***************************************************************************)
(* Claims about the privacy filter, on the state a call has left.          *)
(***************************************************************************)
\* pattern k of the filter is one FilterText applies at the configured level
Applicable(k) == config.Enabled /\ patterns[k].Level <= config.Level

ProgOf(k) == Compile(patterns[k].Pattern).prog

\* C1: the string FilterText returns, for an enabled filter at level Basic or
\* above, holds none of the substrings of its input that an applicable
\* pattern matches
NoSecretLeakage ==
  (op = "FilterText" /\ config.Enabled /\ config.Level >= FilterLevelBasic) =>
    \A k \in DOMAIN patterns :
      Applicable(k) =>
        LET m == FindFrom(ProgOf(k), text, 0)
        IN  (m # <<>> /\ m[2] > m[1]) =>
              ~Contains(result, Lit(SubSeq(text, m[1] + 1, m[2])))

\* C2: FilterText returns its input unchanged when the filter is disabled or
\* its level is None
DisabledIsIdentity ==
  (op = "FilterText" /\ (~config.Enabled \/ config.Level = FilterLevelNone)) =>
    result = text

\* a disabled filter, with compiled built-in and custom patterns that would
\* change the text, has returned it unchanged
DisabledIsIdentityWitness ==
  /\ op = "FilterText" /\ ~config.Enabled /\ config.Level = FilterLevelStrict
  /\ config.CustomPatterns # <<>>
  /\ text = fragEcho /\ result = text
  /\ applyPatterns(patterns, 1, Len(patterns), config.Level, text) # text

AtLevel(l) == [config EXCEPT !.Level = l]

FilterTextAtLevel(l, t) == FilterText(AtLevel(l), compilePatterns(AtLevel(l)), t)

NoPatternMatches(line) ==
  \A k \in DOMAIN patterns :
    (Applicable(k) /\ config.Level # FilterLevelNone) => ~MatchString(ProgOf(k), line)

\* C4: FilterLines returns as many lines as it is given, line i of the result
\* is FilterText of line i, and a line in which no applicable pattern matches
\* is returned as it is
LinesIndependent ==
  op = "FilterLines" =>
    /\ Len(resultLines) = Len(lines)
    /\ \A i \in DOMAIN lines :
         /\ resultLines[i] = FilterText(config, patterns, lines[i])
         /\ NoPatternMatches(lines[i]) => resultLines[i] = lines[i]

\* of two lines the first is redacted and the second, which no pattern
\* matches, is returned as it is
LinesIndependentWitness ==
  /\ op = "FilterLines" /\ config.Enabled /\ config.Level = FilterLevelBasic
  /\ lines = <<fragEcho, fragPlain>>
  /\ Len(resultLines) = 2
  /\ resultLines[1] = Redacted /\ resultLines[2] = fragPlain
  /\ NoPatternMatches(fragPlain)

EndsWithNewline(s) == s # <<>> /\ s[Len(s)] = "\n"

NewlineCount(s) == Cardinality({k \in DOMAIN s : s[k] = "\n"})

\* the pieces of t between its newlines, each through FilterText, joined
Piecewise(t) ==
  LET pieces == Split(t)
  IN  Join([i \in DOMAIN pieces |-> FilterText(config, patterns, pieces[i])])

NoNewlineInReplacement == \A k \in DOMAIN config.ReplacementText : config.ReplacementText[k] # "\n"

\* C5 (as claimed): with a replacement text without newline, FilterMultilineText
\* returns the filtered pieces joined, with as many newlines as its input, and
\* ending with a newline exactly when its input does
NewlineStructurePreserved ==
  (op = "FilterMultilineText" /\ NoNewlineInReplacement) =>
    /\ result = Piecewise(text)
    /\ NewlineCount(result) = NewlineCount(text)
    /\ EndsWithNewline(result) <=> EndsWithNewline(text)

\* no applied pattern matches the empty string, and the replacement text is
\* no template
PlainReplacement ==
  /\ \A k \in DOMAIN patterns :
       (Applicable(k) /\ config.Level # FilterLevelNone) => ~MatchString(ProgOf(k), <<>>)
  /\ \A k \in DOMAIN config.ReplacementText : config.ReplacementText[k] # "$"

\* the piece of t after its last newline
LastPiece(t) == Split(t)[Len(Split(t))]

\* C5: the output is the filtered pieces joined and has as many
\* newlines as the input; it ends with a newline exactly when the input holds
\* a newline and FilterText returns the empty string for the last piece, which
\* is exactly when the input ends with a newline if no applied pattern matches
\* the empty string and the replacement text holds no $
NewlineStructure ==
  (op = "FilterMultilineText" /\ NoNewlineInReplacement) =>
    /\ result = Piecewise(text)
    /\ NewlineCount(result) = NewlineCount(text)
    /\ EndsWithNewline(result) <=>
         (NewlineCount(text) > 0 /\ FilterText(config, patterns, LastPiece(text)) = <<>>)
    /\ PlainReplacement => (EndsWithNewline(result) <=> EndsWithNewline(text))

\* a redacted text that ends with a newline as its input does
NewlineStructureWitness ==
  /\ op = "FilterMultilineText" /\ config.Enabled /\ config.Level = FilterLevelBasic
  /\ PlainReplacement
  /\ text = fragEcho \o <<"\n">>
  /\ result = Redacted \o <<"\n">>

(***************************************************************************)
(* Claims about the session lock.                                          *)
(***************************************************************************)
\* C6: of the start requests against one lock scope at most one session is
\* Recording at any time, in every interleaving of the checks, creations and
\* reclaims of the lock file
SingleInstanceLock == Cardinality({p \in Procs : pc[p] = "Recording"}) <= 1

\* the step of p that finds the lock naming a live process fails with
\* "already active", spawns no shell and leaves the lock file and the other
\* sessions as they are
LiveLockRefused(p) ==
  (pc[p] = "CheckLock" /\ lockFile # NoFile /\ alive(lockFile) /\ pc'[p] # pc[p]) =>
    /\ pc'[p] = "Idle" /\ outcome'[p] = "already active"
    /\ lockFile' = lockFile /\ shell' = shell
    /\ \A q \in Procs \ {p} : pc'[q] = pc[q]

StaleLockReclaimed(p) ==
  /\ (pc[p] = "CheckLock" /\ lockFile # NoFile /\ ~alive(lockFile) /\ pc'[p] # pc[p]) =>
       (pc'[p] = "RemoveStale" /\ foundStale'[p] /\ lockFile' = lockFile)
  /\ (pc[p] = "RemoveStale" /\ pc'[p] # pc[p]) =>
       (pc'[p] = "CreateLock" /\ lockFile' = NoFile)
  /\ (pc[p] = "CreateLock" /\ lockFile = NoFile /\ pc'[p] # pc[p]) =>
       (pc'[p] = "Spawn" /\ lockFile' = p)
  /\ (pc[p] = "Spawn" /\ pc'[p] # pc[p]) =>
       \/ pc'[p] = "Recording" /\ shell'[p] /\ outcome'[p] = "recording"
       \/ pc'[p] = "ReadLock" /\ ~shell'[p] /\ outcome'[p] = "spawn failed"
  /\ (foundStale[p] /\ pc[p] # "Idle" /\ pc'[p] = "Idle") =>
       outcome'[p] \in {"recording", "already active", "spawn failed"}

OwnerCheckedRelease ==
  [][\A p \in Procs :
       (pc[p] = "RemoveLock" /\ pc'[p] = "Idle") =>
         /\ lockFile' # lockFile => lockFile = p
         /\ lockFile' # p]_vars

(***************************************************************************)
(* Claims about the log rotator.                                           *)
(***************************************************************************)
\* the segments are within maxSegmentSize, one of them, the last, is current
SegmentsBounded(segs) ==
  /\ \A k \in DOMAIN segs : segs[k].sizeBytes <= maxSegmentSize
  /\ {k \in DOMAIN segs : ~segs[k].sealed} = {Len(segs)}

\* C9: after every Write, whatever the size of its chunk, no segment, sealed
\* or current, holds more than maxSegmentSize bytes, exactly one segment is
\* current, and a newly opened segment has the sequence number of its
\* predecessor plus one
RotationBound ==
  [][/\ SegmentsBounded(segments')
     /\ Current'.sequenceNumber # Current.sequenceNumber =>
          Current'.sequenceNumber = Current.sequenceNumber + 1]_vars

\* the age of a segment
Age(seg) == now - seg.createdAt

Kept == SelectSeq(segments, LAMBDA s : s.sequenceNumber \notin deleteFailures)

Catalogue ==
  [k \in 1..Len(basicPatterns) |->
     [name |-> basicPatterns[k].name, pattern |-> basicPatterns[k].pattern,
      minLevel |-> FilterLevelBasic]]
  \o [k \in 1..Len(moderatePatterns) |->
     [name |-> moderatePatterns[k].name, pattern |-> moderatePatterns[k].pattern,
      minLevel |-> FilterLevelModerate]]
  \o [k \in 1..Len(strictPatterns) |->
     [name |-> strictPatterns[k].name, pattern |-> strictPatterns[k].pattern,
      minLevel |-> FilterLevelStrict]]

SelectedAt(l) == SelectSeq(Catalogue, LAMBDA c : c.minLevel <= l)

IsBuiltin(p) == p.Name # "Custom Pattern"

\* the built-in patterns of pats that a call at level l applies, in the order
\* in which it applies them
UsedBuiltin(pats, l) ==
  LET used == SelectSeq(pats, LAMBDA p : IsBuiltin(p) /\ p.Level <= l)
  IN  [k \in 1..Len(used) |->
         [name |-> used[k].Name, pattern |-> used[k].Pattern,
          minLevel |-> used[k].Level]]

IsPrefix(s, t) ==
  Len(s) <= Len(t) /\ SubSeq(t, 1, Len(s)) = s

\* the names of the entries of sel whose pattern matches t, in order
MatchingNames(sel, t) ==
  LET hit == SelectSeq(sel, LAMBDA c : MatchString(Compile(c.pattern).prog, t))
  IN  [k \in 1..Len(hit) |-> hit[k].name]

\* the replacement text in force: "[REDACTED]" stands for an empty one
ReplacementOf(cfg) ==
  IF cfg.ReplacementText = <<>> THEN Redacted ELSE cfg.ReplacementText

\* the entries sel[lo..hi] applied one after the other, in order, each on the
\* string the ones before it have left
RECURSIVE ApplyAll(_, _, _, _, _)
ApplyAll(sel, lo, hi, repl, t) ==
  IF lo > hi THEN t
  ELSE IF lo = hi
       THEN ReplaceAllString(Compile(sel[lo].pattern).prog, t, repl)
  ELSE LET mid == (lo + hi) \div 2
           half == ApplyAll(sel, lo, mid, repl, t)
       IN  IF Len(half) >= 0 THEN ApplyAll(sel, mid + 1, hi, repl, half) ELSE half

\* C13: an enabled filter at level L of Basic, Moderate or Strict uses a
\* built-in pattern if and only if the level of its table is at most L, in
\* the order of the tables; what it uses at L is the head of what a filter
\* of the same configuration uses at every higher level; FilterText
\* applies exactly these, in that order, and DetectSensitivePatterns reports
\* the built-in names in that same order
LevelSelectedPatterns ==
  (config.Enabled /\ config.Level >= FilterLevelBasic) =>
    /\ UsedBuiltin(patterns, config.Level) = SelectedAt(config.Level)
    /\ \A l \in FilterLevels :
         l > config.Level =>
           IsPrefix(UsedBuiltin(patterns, config.Level),
                    UsedBuiltin(compilePatterns(AtLevel(l)), l))
    /\ (op = "FilterText" /\ config.CustomPatterns = <<>>) =>
         result = ApplyAll(SelectedAt(config.Level), 1,
                           Len(SelectedAt(config.Level)), ReplacementOf(config), text)
    /\ op = "DetectSensitivePatterns" =>
         SelectSeq(detected, LAMBDA n : n # "Custom Pattern")
           = MatchingNames(SelectedAt(config.Level), text)

\* a Moderate filter, holding the Basic and the Moderate table, has reported
\* the private address that a Moderate pattern matches
LevelSelectedPatternsWitness ==
  /\ op = "DetectSensitivePatterns"
  /\ config.Enabled /\ config.Level = FilterLevelModerate
  /\ text = fragPrivateIP
  /\ detected = <<"Private IP">>
  /\ Len(UsedBuiltin(patterns, config.Level))
       = Len(basicPatterns) + Len(moderatePatterns)

(***************************************************************************)
(* Claims about custom patterns.                                           *)
(***************************************************************************)
\* the custom patterns of cfg that compile, in the order of the configuration
CustomsOf(cfg) ==
  SelectSeq(customTable(cfg), LAMBDA p : ~Compile(p.pattern).err)

\* the text as the built-in patterns of the level of cfg leave it
BuiltinFiltered(cfg, t) ==
  ApplyAll(SelectedAt(cfg.Level), 1, Len(SelectedAt(cfg.Level)), ReplacementOf(cfg), t)

\* the custom patterns of cfg applied, in order, to what the built-in
\* patterns of its level have left of t
CustomFiltered(cfg, t) ==
  ApplyAll(CustomsOf(cfg), 1, Len(CustomsOf(cfg)), ReplacementOf(cfg),
           BuiltinFiltered(cfg, t))

\* C14 as claimed: at every level, None included, FilterText of an enabled
\* filter applies every custom pattern that compiles
CustomPatternsAtEveryLevel ==
  (op = "FilterText" /\ config.Enabled) => result = CustomFiltered(config, text)

\* C14: at the levels Basic, Moderate and Strict, FilterText of an enabled
\* filter applies every custom pattern that compiles, after the built-in
\* patterns of the level; at level None it applies no pattern at all
CustomPatternsApplied ==
  (op = "FilterText" /\ config.Enabled) =>
    /\ \A k \in 1..Len(CustomsOf(config)) :
         \E j \in DOMAIN patterns :
           /\ patterns[j].Pattern = CustomsOf(config)[k].pattern
           /\ patterns[j].Level = FilterLevelBasic
    /\ config.Level >= FilterLevelBasic => result = CustomFiltered(config, text)
    /\ config.Level = FilterLevelNone => result = text

\* a Strict filter has replaced the text that only its custom pattern matches
CustomPatternsAppliedWitness ==
  /\ op = "FilterText" /\ config.Enabled /\ config.Level = FilterLevelStrict
  /\ config.ReplacementText = <<>>
  /\ Len(CustomsOf(config)) = 1
  /\ text = fragCustom
  /\ BuiltinFiltered(config, text) = text
  /\ result = Redacted

\* cfg without the entries of customPatterns that fail to compile
WithoutMalformed(cfg) ==
  [cfg EXCEPT !.CustomPatterns = SelectSeq(@, LAMBDA e : ~Compile(e).err)]

\* the custom entries a filter holds, in order
CustomEntries(pats) == SelectSeq(pats, LAMBDA p : ~IsBuiltin(p))

\* C15: a filter made from a configuration with a malformed custom pattern
\* holds every built-in pattern of its level and every well-formed custom
\* pattern, and FilterText and DetectSensitivePatterns return what they
\* return on the filter made from the configuration without the malformed
\* entries
MalformedSkipped ==
  LET clean == WithoutMalformed(config)
  IN  clean # config =>
        /\ UsedBuiltin(patterns, config.Level) = SelectedAt(config.Level)
        /\ CustomEntries(patterns)
             = [k \in 1..Len(clean.CustomPatterns) |->
                  [Name |-> "Custom Pattern", Pattern |-> clean.CustomPatterns[k],
                   Replacement |-> ReplacementOf(config), Level |-> FilterLevelBasic]]
        /\ patterns = compilePatterns(clean)
        /\ op = "FilterText" =>
             result = FilterText(clean, compilePatterns(clean), text)
        /\ op = "DetectSensitivePatterns" =>
             detected = DetectSensitivePatterns(clean, compilePatterns(clean), text)

\* a filter whose first custom pattern is malformed has replaced the text
\* that its second custom pattern matches
MalformedSkippedWitness ==
  /\ op = "FilterText" /\ config.Enabled /\ config.Level = FilterLevelBasic
  /\ Len(config.CustomPatterns) = 2
  /\ Compile(config.CustomPatterns[1]).err
  /\ ~Compile(config.CustomPatterns[2]).err
  /\ config.ReplacementText = <<>>
  /\ text = fragCustom /\ result = Redacted

(***************************************************************************)
(* Claims about the configuration a Filter was made from.                  *)
(***************************************************************************)
\* what the four operations return on the texts of Frags, for a Filter
\* holding cfg and pats
Answers(cfg, pats) ==
  [t \in Frags |->
     <<FilterText(cfg, pats, t), FilterLines(cfg, pats, <<t>>),
       FilterMultilineText(cfg, pats, t), DetectSensitivePatterns(cfg, pats, t)>>]

\* C16: an assignment to a field of the FilterConfig that was passed to
\* NewFilter changes the result of no operation of the Filter, and no
\* operation of the Filter changes the configuration
ConfigImmutable ==
  [][/\ op' = "SetEnabled" => Answers(config', patterns') = Answers(config, patterns)
     /\ op' \in {"FilterText", "FilterLines", "FilterMultilineText",
                 "DetectSensitivePatterns"} => config' = config]_vars

(***************************************************************************)
(* Claims about DetectSensitivePatterns.                                   *)
(***************************************************************************)
Range(s) == {s[k] : k \in DOMAIN s}

\* the names of the filter's catalogue: the built-in ones and the one name
\* all custom patterns carry
CatalogueNames == {c.name : c \in Range(Catalogue)} \cup {"Custom Pattern"}

\* the patterns of the catalogue in force for cfg: the built-in ones of its
\* level and the custom ones that compile
InForce(cfg) == Range(SelectedAt(cfg.Level)) \cup Range(CustomsOf(cfg))

\* C17: for an enabled filter at level Basic or above a name is in the result
\* of DetectSensitivePatterns if and only if some pattern of that name in
\* force at the level matches somewhere in the text; every element of the
\* result is a name of the catalogue; the result is empty for a disabled
\* filter and at level None
DetectReportsNames ==
  op = "DetectSensitivePatterns" =>
    /\ (config.Enabled /\ config.Level >= FilterLevelBasic) =>
         \A n \in CatalogueNames :
           n \in Range(detected) <=>
             \E c \in InForce(config) :
               c.name = n /\ MatchString(Compile(c.pattern).prog, text)
    /\ Range(detected) \subseteq CatalogueNames
    /\ (~config.Enabled \/ config.Level = FilterLevelNone) => detected = <<>>

\* a Strict filter has reported, for a text holding a private address and a
\* custom secret, the names of the two patterns and nothing of the text
DetectReportsNamesWitness ==
  /\ op = "DetectSensitivePatterns"
  /\ config.Enabled /\ config.Level = FilterLevelStrict
  /\ text = fragPrivateIP \o fragCustom
  /\ detected = <<"Private IP", "Custom Pattern">>

(***************************************************************************)
(* Claims about the scenarios of the tests.                                *)
(***************************************************************************)
\* the position of the first "=" of t, 0 when it has none
FirstEquals(t) ==
  IF \E i \in DOMAIN t : t[i] = "="
  THEN CHOOSE i \in DOMAIN t : t[i] = "=" /\ \A j \in 1..(i - 1) : t[j] # "="
  ELSE 0

SecretWords ==
  {<<"K", "E", "Y">>, <<"T", "O", "K", "E", "N">>,
   <<"S", "E", "C", "R", "E", "T">>, <<"P", "A", "S", "S", "W", "O", "R", "D">>}

\* t is NAME=value, the NAME one word holding KEY, TOKEN, SECRET or PASSWORD
\* and the value of at least 8 characters
IsSecretAssignment(t) ==
  LET i == FirstEquals(t)
      name == SubSeq(t, 1, i - 1)
  IN  /\ i > 1
      /\ \A j \in 1..(i - 1) : t[j] \notin Space
      /\ \E w \in SecretWords : Contains(name, Lit(w))
      /\ Len(t) - i >= 8

\* the sk-... value of the exported key
ExportedValue ==
  SubSeq(textExportOpenAI, FirstEquals(textExportOpenAI) + 1, Len(textExportOpenAI))

\* s holds no three characters in a row of the exported value
HoldsNoPartOfValue(s) ==
  \A i \in 1..(Len(ExportedValue) - 2) :
    ~Contains(s, Lit(SubSeq(ExportedValue, i, i + 2)))

\* the first half of C18: FilterText of the export command, with the default
\* configuration, holds "[REDACTED]" and no part of the sk-... value
ExportRedacted ==
  (op = "FilterText" /\ config = DefaultFilterConfig /\ text = textExportOpenAI) =>
    Contains(result, Lit(Redacted)) /\ HoldsNoPartOfValue(result)

\* C18: FilterText of the export command, with the default configuration,
\* holds "[REDACTED]" and no part of the sk-... value, and it changes every
\* assignment NAME=value whose NAME holds KEY, TOKEN, SECRET or PASSWORD and
\* whose value has at least 8 characters
SecretAssignmentsChanged ==
  (op = "FilterText" /\ config = DefaultFilterConfig) =>
    /\ text = textExportOpenAI =>
         Contains(result, Lit(Redacted)) /\ HoldsNoPartOfValue(result)
    /\ IsSecretAssignment(text) => result # text

\* C19: a filter of built-in patterns alone returns the plain texts
\* "ls -la /home/user", "echo 'Hello World'" and "Hello World" unchanged at
\* every level, Strict included, and the bare address "user@example.com"
\* unchanged at Moderate
OrdinaryTextUnchanged ==
  (op = "FilterText" /\ config.CustomPatterns = <<>>) =>
    /\ text \in {textLsHome, textEchoHello, textHelloWorld} => result = text
    /\ (text = textBareEmail /\ config.Level = FilterLevelModerate) => result = text

\* an enabled Strict filter has run its patterns over "ls -la /home/user" and
\* an enabled Moderate one over the bare address, and each returned the text
OrdinaryTextUnchangedWitness ==
  /\ op = "FilterText" /\ config.Enabled /\ config.CustomPatterns = <<>>
  /\ \/ text = textLsHome /\ config.Level = FilterLevelStrict
     \/ text = textBareEmail /\ config.Level = FilterLevelModerate
  /\ result = text
  /\ Len(UsedBuiltin(patterns, config.Level)) >= Len(basicPatterns) + Len(moderatePatterns)

(***************************************************************************)
(* Claims about the termination of a recording session.                    *)
(***************************************************************************)
\* C11: in every interleaving of the copy loop and the exit/signal observer
\* the segment is sealed, and the session back in Idle, only when no append
\* is in flight and the copy loop has drained the pty to EOF: every chunk
\* the shell wrote is then in the segment or was dropped by a failed write
NoTruncation ==
  /\ segmentSealed =>
       /\ ~appendInFlight
       /\ copyLoop = "off" /\ ptyBuffered = 0
       /\ logged + dropped = produced
  /\ (session = "Idle" /\ produced > 0) => segmentSealed
  /\ (session = "Idle" /\ fsWritable /\ dropped = 0) => logged = produced

\* a session stopped by a signal has sealed a segment holding all the chunks
\* the shell wrote
NoTruncationWitness ==
  /\ session = "Idle" /\ segmentSealed /\ stopRequested
  /\ produced = MaxOutput /\ logged = MaxOutput

RECURSIVE TotalBytes(_)
TotalBytes(segs) ==
  IF segs = <<>> THEN 0 ELSE Head(segs).sizeBytes + TotalBytes(Tail(segs))

\* the rotator was fresh, 3 x maxSegmentSize bytes are in its segments, and
\* the retention sweep has deleted none of them
ThreeSizesWritten ==
  /\ \A k \in DOMAIN segments : segments[k].sequenceNumber = k
  /\ TotalBytes(segments) = 3 * maxSegmentSize

DetectionAgreesOnCleanText ==
  (op = "DetectSensitivePatterns" /\ detected = <<>>) =>
    FilterText(config, patterns, text) = text

\* a Strict filter with a custom pattern has reported nothing for a text of
\* a plain word and the end of its line
DetectionAgreesOnCleanTextWitness ==
  /\ op = "DetectSensitivePatterns"
  /\ config.Enabled /\ config.Level = FilterLevelStrict
  /\ config.CustomPatterns = <<"[", "my_secret_\\w+">>
  /\ text = fragPlain \o <<"\n">> /\ detected = <<>>

\* C27: FilterText applied to its own result returns that result: a text
\* that was filtered once is not changed by the same filter again
FilterTextIdempotent ==
  op = "FilterText" => FilterText(config, patterns, result) = result

\* the same of a filter of the default configuration at any level, for the
\* assignment to token of a command that reads a variable
DefaultFilterIdempotent ==
  (op = "FilterText" /\ config.Enabled /\ config.CustomPatterns = <<>>
     /\ config.ReplacementText = <<>> /\ text = textTokenEcho) =>
    FilterText(config, patterns, result) = result

(***************************************************************************)
(* Claims about the validation of a Config.                                *)
(***************************************************************************)
\* hasVersionPrefix, which the tests of the package call: whether the last
\* segment of the path, one slash at the end apart, is v and then digits
hasVersionPrefix(urlString) ==
  LET trimmed == IF urlString # <<>> /\ urlString[Len(urlString)] = "/"
                 THEN SubSeq(urlString, 1, Len(urlString) - 1) ELSE urlString
      segment == SubSeq(trimmed, LastIndexByte(trimmed, "/") + 1, Len(trimmed))
  IN  /\ Len(segment) >= 2
      /\ segment[1] = "v"
      /\ \A i \in 2..Len(segment) : segment[i] \in Digit

\* C21: validateProviderConfig of the openai_compatible section returns an
\* error of the field openai_compatible.base_url that speaks of a version
\* prefix exactly when hasVersionPrefix holds of the base URL, that is, when
\* its last path segment is v and digits; hasVersionPrefix of the empty
\* string is false
VersionedBaseURLRejected ==
  /\ ~hasVersionPrefix(<<>>)
  /\ (call = "validateProviderConfig" /\ arg = openai_compatible) =>
       ((\E e \in Range(ret.errors) :
           /\ e.Field = <<"o", "p", "e", "n", "a", "i", "_", "c", "o", "m",
                          "p", "a", "t", "i", "b", "l", "e", ".", "b", "a",
                          "s", "e", "_", "u", "r", "l">>
           /\ Contains(e.Message, Lit(<<"v", "e", "r", "s", "i", "o", "n",
                                        " ", "p", "r", "e", "f", "i", "x">>)))
        <=> hasVersionPrefix(conf.OpenAICompatible.BaseURL))

\* the half of C21 the code keeps: a base URL of the tests without a version
\* at its end is given no error
UnversionedBaseURLAccepted ==
  (call = "validateProviderConfig" /\ arg = openai_compatible
     /\ conf.OpenAICompatible.BaseURL \in
          {<<"h", "t", "t", "p", "s", ":", "/", "/", "o", "p", "e", "n",
             ".", "b", "i", "g", "m", "o", "d", "e", "l", ".", "c", "n",
             "/", "a", "p", "i", "/", "p", "a", "a", "s", "/", "v", "4",
             "/", "c", "h", "a", "t", "/", "c", "o", "m", "p", "l", "e",
             "t", "i", "o", "n", "s">>,
           <<"h", "t", "t", "p", "s", ":", "/", "/", "a", "p", "i", ".",
             "e", "x", "a", "m", "p", "l", "e", ".", "c", "o", "m", "/",
             "v", "a", "l", "i", "d">>, <<"h", "t", "t", "p", "s",
                                                ":", "/", "/", "a", "p",
                                                "i", ".", "e", "x", "a",
                                                "m", "p", "l", "e", ".",
                                                "c", "o", "m", "/", "v",
                                                "e", "r", "s", "i", "o", "n">>,
           <<"h", "t", "t", "p", "s", ":", "/", "/", "a", "p", "i", ".",
             "e", "x", "a", "m", "p", "l", "e", ".", "c", "o", "m", "/",
             "v", "-", "a">>, <<"h", "t", "t", "p", "s", ":",
                                              "/", "/", "a", "p", "i", ".",
                                              "e", "x", "a", "m", "p", "l",
                                              "e", ".", "c", "o", "m">>}) =>
    ret.errors = <<>>

\* whether the error Validate returned holds a ValidationError of the field
HasFieldError(err, field) ==
  IF err = Nil THEN FALSE
  ELSE \E e \in Range(err.ValidationErrors) : e.Field = field

\* the Azure section names both a resource and a base URL
AzureBothSet(c) ==
  IF c.AzureOpenAI = Nil THEN FALSE
  ELSE c.AzureOpenAI.ResourceName # <<>> /\ c.AzureOpenAI.BaseURL # <<>>

IsDateFormat(version) ==
  /\ Len(version) = 10
  /\ \A i \in 1..10 : IF i \in {5, 8} THEN version[i] = "-" ELSE version[i] \in Digit

\* C25: Validate reports an error of the field azure_openai.api_version for
\* an API version of the Azure section that is not empty and not of the
\* format YYYY-MM-DD, and for no other
AzureAPIVersionIsDate ==
  (call = "Validate" /\ conf.AzureOpenAI # Nil) =>
    (HasFieldError(ret.err, <<"a", "z", "u", "r", "e", "_", "o", "p", "e",
                              "n", "a", "i", ".", "a", "p", "i", "_", "v",
                              "e", "r", "s", "i", "o", "n">>)
       <=> (conf.AzureOpenAI.APIVersion # <<>> /\ ~IsDateFormat(conf.AzureOpenAI.APIVersion)))

\* the part of C25 that holds: an empty API version and one of the format
\* are accepted, and one of another length or another number of hyphens is
\* reported
AzureAPIVersionLengths ==
  (call = "Validate" /\ conf.AzureOpenAI # Nil) =>
    LET version == conf.AzureOpenAI.APIVersion
        reported == HasFieldError(ret.err, <<"a", "z", "u", "r", "e", "_",
                                             "o", "p", "e", "n", "a", "i",
                                             ".", "a", "p", "i", "_", "v",
                                             "e", "r", "s", "i", "o", "n">>)
    IN  /\ (version = <<>> \/ IsDateFormat(version)) => ~reported
        /\ (version # <<>> /\ (Len(version) # 10 \/ Len(SplitAt(version, "-")) # 3)) => reported

(***************************************************************************)
(* Claims about the accessors of a Config.                                 *)
(***************************************************************************)
\* the provider is one of the six, its section is there and has a key, and
\* the section of Azure a deployment name too
Available(c, provider) ==
  /\ provider \in {openai, openai_compatible, azure_openai, anthropic, gemini, deepseek}
  /\ sectionOf(c, provider) # Nil
  /\ sectionOf(c, provider).APIKey # <<>>
  /\ provider = azure_openai => c.AzureOpenAI.DeploymentName # <<>>

\* C28: ValidateProviderAvailable returns nil exactly for a supported
\* provider whose section is there with a key (and, for Azure, a deployment
\* name); GetAPIKey of the same Config and provider then returns a key that
\* is not empty and no error; and GetAPIKey never returns an empty key
\* without an error
AvailableImpliesKey ==
  /\ call = "ValidateProviderAvailable" =>
       /\ ret.err = Nil <=> Available(conf, arg)
       /\ ret.err = Nil =>
            (GetAPIKey(conf, arg).key # <<>> /\ GetAPIKey(conf, arg).err = Nil)
  /\ call = "GetAPIKey" => ~(ret.key = <<>> /\ ret.err = Nil)

\* Azure with key and deployment was found available, and Azure with a key
\* and no deployment would not be though GetAPIKey returns its key
AvailableImpliesKeyWitness ==
  /\ call = "ValidateProviderAvailable" /\ arg = azure_openai /\ ret.err = Nil
  /\ conf.AzureOpenAI.DeploymentName = <<"g", "p", "t", "4">>
  /\ GetAPIKey(conf, arg).key = <<"k", "3">>
  /\ ValidateProviderAvailable([conf EXCEPT !.AzureOpenAI.DeploymentName = <<>>], arg) # Nil
  /\ GetAPIKey([conf EXCEPT !.AzureOpenAI.DeploymentName = <<>>], arg).err = Nil

\* C29: GetProviderConfig returns the section and no error when the provider
\* is openai, openai_compatible, anthropic, gemini or deepseek and the
\* section is there, and otherwise (azure_openai and unknown names too) no
\* section and an error; it leaves the Config as it is
SectionOrError ==
  [][(call = "Idle" /\ call' = "GetProviderConfig") =>
       LET found == /\ arg' \in {openai, openai_compatible, anthropic, gemini, deepseek}
                    /\ sectionOf(conf, arg') # Nil
       IN  /\ conf' = conf
           /\ found => (ret'.cfg = sectionOf(conf, arg') /\ ret'.cfg # Nil /\ ret'.err = Nil)
           /\ ~found => (ret'.cfg = Nil /\ ret'.err # Nil)]_vars

\* the Azure section is there, isValidProvider accepts its name, and
\* GetProviderConfig has returned no section and an error
SectionOrErrorWitness ==
  /\ call = "GetProviderConfig" /\ arg = azure_openai
  /\ isValidProvider(arg)
  /\ conf.AzureOpenAI # Nil
  /\ ret.cfg = Nil /\ ret.err # Nil

(***************************************************************************)
(* Claims about the configuration file.                                    *)
(***************************************************************************)
\* C23: after a SaveConfig that returned nil the file at the path has the
\* permission bits 0600, whatever was at the path before
SavedFileOwnerOnly ==
  (call = "SaveConfig" /\ ret.err = Nil) =>
    (cfgFile # NoConfigFile /\ cfgFile.mode = "0600")

\* the part of C23 that holds: SaveConfig of the empty path returns an error
\* and leaves the file as it is, and a file that SaveConfig creates has the
\* bits 0600
SaveCreatesOwnerOnly ==
  [][(call' = "SaveConfig" /\ call = "Idle") =>
       /\ arg' = <<>> => (ret'.err # Nil /\ cfgFile' = cfgFile)
       /\ (cfgFile = NoConfigFile /\ cfgFile' # NoConfigFile) => cfgFile'.mode = "0600"]_vars

\* the value a field has in a Config read from the file: that of the
\* section of key k, empty if the file has no such section
FileValue(file, k, f) ==
  IF fieldOf(file, k) = Nil THEN <<>> ELSE fieldOf(fieldOf(file, k), f)

\* the keys of the fields mergeConfigs may fill, and of those it may not
FilledKeys == {"base_url", "model", "api_version"}

KeptKeys(k) == (IF k = "azure_openai" THEN azureKeys ELSE providerKeys) \ FilledKeys

\* C24: a LoadConfig that succeeds returns a Config with a default provider
\* and six sections; a default provider, base URL, model or API version that
\* the file gives is the one returned, one the file leaves empty is that of
\* DefaultConfig, and an API key, resource name or deployment name is the one
\* of the file, empty if the file has none.  A LoadConfig that fails (no
\* path, no file, a file that cannot be read or is no JSON of a Config)
\* returns no Config and an error, and fails in each of these cases.
LoadFillsMissingOnly ==
  call = "LoadConfig" =>
    LET got == ret.cfg
        read == Unmarshal(cfgFile.data)
        file == read.cfg
        fails == \/ arg = <<>>
                 \/ cfgFile = NoConfigFile
                 \/ (IF cfgFile = NoConfigFile THEN FALSE
                     ELSE ~ownerReads(cfgFile.mode) \/ read.err # Nil)
    IN  /\ fails <=> ret.err # Nil
        /\ ret.err # Nil <=> got = Nil
        /\ ret.err = Nil =>
             /\ got.DefaultProvider # <<>>
             /\ got.DefaultProvider = IF file.DefaultProvider # <<>> THEN file.DefaultProvider
                                      ELSE DefaultConfig.DefaultProvider
             /\ \A k \in sectionKeys :
                  /\ fieldOf(got, k) # Nil
                  /\ \A f \in FilledKeys :
                       fieldOf(fieldOf(got, k), f) =
                         IF FileValue(file, k, f) # <<>> THEN FileValue(file, k, f)
                         ELSE fieldOf(fieldOf(DefaultConfig, k), f)
                  /\ \A f \in KeptKeys(k) :
                       fieldOf(fieldOf(got, k), f) = FileValue(file, k, f)

\* the file has an OpenAI section with a model, a base URL and an API
\* version of the user and no key, and no other section: the Config returned
\* has the three values of the file, no key, and the Anthropic section of
\* the defaults
LoadFillsMissingOnlyWitness ==
  /\ call = "LoadConfig" /\ ret.err = Nil
  /\ DOMAIN cfgFile.data.obj = {"openai", "default_provider"}
  /\ ret.cfg.DefaultProvider = gemini
  /\ ret.cfg.OpenAI.Model = <<"g", "p", "t", "-", "4">>
  /\ ret.cfg.OpenAI.BaseURL = <<"h", "t", "t", "p", "s", ":", "/", "/", "p",
                                "r", "o", "x", "y", ".", "e", "x", "a", "m",
                                "p", "l", "e", ".", "c", "o", "m">>
  /\ ret.cfg.OpenAI.APIVersion = <<"v", "2">>
  /\ ret.cfg.OpenAI.APIKey = <<>>
  /\ ret.cfg.Anthropic = DefaultConfig.Anthropic
  /\ ret.cfg.AzureOpenAI.APIVersion = <<"2", "0", "2", "4", "-", "1", "0",
                                        "-", "2", "1">>

\* whether no string of the Config has a byte that is not UTF-8
ValidUTF8(c) ==
  /\ "<FF>" \notin Range(c.DefaultProvider)
  /\ \A k \in sectionKeys :
       fieldOf(c, k) # Nil =>
         \A f \in (IF k = "azure_openai" THEN azureKeys ELSE providerKeys) :
           "<FF>" \notin Range(fieldOf(fieldOf(c, k), f))

\* C30: after a SaveConfig that returned nil, LoadConfig of the same path
\* returns the saved Config with the defaults merged into it,
\* mergeConfigs(c, DefaultConfig()), and no error; and merging the defaults
\* into a Config twice gives what merging them once gives
SaveLoadRoundTrip ==
  /\ mergeConfigs(mergeConfigs(conf, DefaultConfig), DefaultConfig)
       = mergeConfigs(conf, DefaultConfig)
  /\ (call = "SaveConfig" /\ ret.err = Nil) =>
       LoadConfig(cfgFile, arg) = [cfg |-> mergeConfigs(conf, DefaultConfig), err |-> Nil]

\* the part of C30 that holds: merging twice is merging once, and a saved
\* Config whose strings are UTF-8 is returned with the defaults merged by
\* every LoadConfig that can read the file
RoundTripOfReadableUTF8 ==
  /\ mergeConfigs(mergeConfigs(conf, DefaultConfig), DefaultConfig)
       = mergeConfigs(conf, DefaultConfig)
  /\ (call = "SaveConfig" /\ ret.err = Nil) =>
       /\ LoadConfig(cfgFile, arg).err = Nil <=> ownerReads(cfgFile.mode)
       /\ (ValidUTF8(conf) /\ ownerReads(cfgFile.mode)) =>
            LoadConfig(cfgFile, arg).cfg = mergeConfigs(conf, DefaultConfig)

====
